---- MODULE Spec2Model ----
(***************************************************************************)
(* Model of the APR tool's core: the file-mediated handshake of            *)
(* testing/runner.py (TestRunner), the oracle comparison of                *)
(* testing/validator.py and the spectrum-based fault localization of       *)
(* localization/sbfl.py.                                                   *)
(*                                                                         *)
(* Three specifications share the variables:                               *)
(*   Spec          the runner driving an untrusted Controller process      *)
(*   SpecValidate  validate_iteration applied to bounded Votes             *)
(*   SpecSbfl      CoverageMatrix / SBFLLocalizer                          *)
(* and SpecFair is Spec with the fairness the runner's own control flow    *)
(* has (the runner is a sequential program that keeps running).            *)
(***************************************************************************)
EXTENDS Integers, Sequences, FiniteSets, TLC

(***************************************************************************)
(* Bounds of the model                                                     *)
(***************************************************************************)
MaxTestCases == 2       \* test cases in the list given to run_all_test_cases
MaxIterations == 2      \* num_iterations of a test case
MaxSize == 2            \* size in bytes of an input file t{i}
StartupPolls == 2       \* polls of 10 ms that fit in startup_timeout
IterationPolls == 2     \* polls of 1 ms that fit in iteration_timeout
VoteLen == 7            \* slots of positions / velocities kept of the 100
MaxCoord == 1           \* coordinates of a Vote are in -MaxCoord..MaxCoord
MaxLine == 2            \* source line numbers are 1..MaxLine

(***************************************************************************)
(* Program constants                                                       *)
(***************************************************************************)
NUM_JOINTS == 6                 \* validate_iteration(num_joints=6)
DEFAULT_STATE_SIZE == 832033    \* fallback size of _state
None == -1                      \* Python's None in an Optional[int] field

(***************************************************************************)
(* Exact arithmetic.  The program computes in IEEE doubles; the model      *)
(* computes the same expressions over the integers and keeps square roots  *)
(* symbolic, so that comparisons are decided without rounding.             *)
(***************************************************************************)
RECURSIVE SumSeq(_)
SumSeq(s) == IF s = <<>> THEN 0 ELSE Head(s) + SumSeq(Tail(s))

Min2(a, b) == IF a < b THEN a ELSE b

\* a[:n] of a Python list
Take(s, n) == SubSeq(s, 1, Min2(n, Len(s)))

\* zip(a, b): pairs up to the shorter of the two
Zip(a, b) == [i \in 1..Min2(Len(a), Len(b)) |-> <<a[i], b[i]>>]

\* A <= B * sqrt(r), for integers A, B and r >= 0
LeqRoot(A, B, r) ==
    IF r = 0 THEN A <= 0
    ELSE IF B >= 0 THEN A <= 0 \/ A * A <= B * B * r
    ELSE A < 0 /\ A * A >= B * B * r

(***************************************************************************)
(* testing/data_format.py: Vote                                            *)
(***************************************************************************)
\* A Vote: idx and the position / velocity slots (VoteLen of the 100 kept)
MkVote(idx, positions, velocities) ==
    [idx |-> idx, positions |-> positions, velocities |-> velocities]

\* get_comparison_vector taking one slot more of each array
get_comparison_vector_one_more(vote, num_joints) ==
    Take(vote.positions, num_joints + 1)
        \o Take(vote.velocities, num_joints + 1)

\* Vote.get_comparison_vector: positions[:num_joints] + velocities[:num_joints]
get_comparison_vector(vote, num_joints) ==
    Take(vote.positions, num_joints) \o Take(vote.velocities, num_joints)

(***************************************************************************)
(* testing/validator.py                                                    *)
(***************************************************************************)
\* ValidationResult(passed, detail); detail keeps the kind of the message
ValidationResult(passed, detail) == [passed |-> passed, detail |-> detail]

\* ValidationResult.__str__
ResultStr(v) == IF v.detail # "" THEN v.detail
                ELSE IF v.passed THEN "PASS" ELSE "FAIL"

\* A double d computed by the program is kept as an exact real and the
\* direction of its rounding error: d is whole + num / sqrt(rad) (rad >= 1)
\* when ulp = 0, and a few units in the last place below (ulp = -1) or above
\* (ulp = 1) that real otherwise
Real(whole, num, rad, ulp) ==
    [whole |-> whole, num |-> num, rad |-> rad, ulp |-> ulp]

\* The exact part of d is <= (>=) the rational q.num / q.den, q.den > 0
ExactLeq(d, q) ==
    LeqRoot(d.num * q.den, q.num - d.whole * q.den, d.rad)
ExactGeq(d, q) ==
    LeqRoot(-(d.num * q.den), -(q.num - d.whole * q.den), d.rad)

\* d <= q and d < q for a computed double d and a rational q that is a double
RealLeq(d, q) ==
    IF ExactLeq(d, q) /\ ExactGeq(d, q) THEN d.ulp <= 0 ELSE ExactLeq(d, q)
RealLess(d, q) ==
    IF ExactLeq(d, q) /\ ExactGeq(d, q) THEN d.ulp < 0 ELSE ExactLeq(d, q)

Rational(n) == [num |-> n, den |-> 1]

RECURSIVE IsSquareFrom(_, _)
IsSquareFrom(n, k) ==
    IF k * k >= n THEN k * k = n ELSE IsSquareFrom(n, k + 1)
\* math.sqrt(n) is exact
IsSquare(n) == IsSquareFrom(n, 0)

\* The rounding errors a double computation may make
Roundings == {-1, 0, 1}

\* dot / (norm1 * norm2), the norms being sqrt(sq1) and sqrt(sq2): exact when
\* both roots are (or dot is 0); rounded when the product of two inexact
\* roots is a rational, as in sqrt(2) * sqrt(2) = 2.0000000000000004;
\* an irrational quotient is never at a threshold, its rounding is immaterial
Quotient(dot, sq1, sq2, round) ==
    Real(0, dot, sq1 * sq2,
         IF dot = 0 \/ (IsSquare(sq1) /\ IsSquare(sq2)) THEN 0
         ELSE IF IsSquare(sq1 * sq2) THEN round ELSE 0)

\* The similarity left as computed, without max and min
ClampSimilarityNone(x) == x

\* max(-1.0, min(1.0, x)): Python's min(a, b) is b when b < a and a
\* otherwise, max(a, b) is b when b > a and a otherwise
ClampSimilarity(x) ==
    LET inner == IF RealLess(x, Rational(1)) THEN x ELSE Real(1, 0, 1, 0)
    IN  IF ~RealLeq(inner, Rational(-1)) THEN inner ELSE Real(-1, 0, 1, 0)

\* cosine_distance(vec1, vec2); round is the rounding error of the division
cosine_distance(vec1, vec2, round) ==
    LET z     == Zip(vec1, vec2)
        dot   == SumSeq([i \in 1..Len(z) |-> z[i][1] * z[i][2]])
        norm1 == SumSeq([i \in 1..Len(vec1) |-> vec1[i] * vec1[i]])  \* squared
        norm2 == SumSeq([i \in 1..Len(vec2) |-> vec2[i] * vec2[i]])  \* squared
    IN  IF norm1 = 0 /\ norm2 = 0 THEN Real(0, 0, 1, 0)
        ELSE IF norm1 = 0 \/ norm2 = 0 THEN Real(1, 0, 1, 0)
        ELSE LET similarity ==
                     ClampSimilarity(Quotient(dot, norm1, norm2, round))
             IN  Real(1 - similarity.whole, -similarity.num, similarity.rad,
                      -similarity.ulp)

\* validate_iteration with "distance < epsilon": the boundary excluded
validate_iteration_strict(controller_vote, oracle_vote, epsilon, round) ==
    IF controller_vote.idx # oracle_vote.idx
    THEN ValidationResult(FALSE, "FAIL: index mismatch")
    ELSE IF RealLess(
              cosine_distance(
                get_comparison_vector(controller_vote, NUM_JOINTS),
                get_comparison_vector(oracle_vote, NUM_JOINTS), round),
              epsilon)
         THEN ValidationResult(TRUE, "PASS")
         ELSE ValidationResult(FALSE, "FAIL: cosine_distance")

\* validate_iteration(controller_vote, oracle_vote, epsilon, num_joints=6)
validate_iteration(controller_vote, oracle_vote, epsilon, round) ==
    IF controller_vote.idx # oracle_vote.idx
    THEN ValidationResult(FALSE, "FAIL: index mismatch")
    ELSE LET controller_vec ==
                 get_comparison_vector(controller_vote, NUM_JOINTS)
             oracle_vec == get_comparison_vector(oracle_vote, NUM_JOINTS)
             distance == cosine_distance(controller_vec, oracle_vec, round)
         IN  IF RealLeq(distance, epsilon)
             THEN ValidationResult(TRUE, "PASS")
             ELSE ValidationResult(FALSE, "FAIL: cosine_distance")

\* The default epsilon, 0.5
DefaultEpsilon == [num |-> 1, den |-> 2]

(***************************************************************************)
(* State                                                                   *)
(***************************************************************************)
VARIABLES
    \* --- testing/runner.py: TestRunner and its environment ---
    testCases,      \* the list given to run_all_test_cases
    tcIdx,          \* position of run_all_test_cases' loop in that list
    results,        \* run_all_test_cases' dict: name -> verdict of its result
    pc,             \* where the runner is
    iteration,      \* run_test_case's loop variable i
    waited,         \* polls done in the wait loop the runner is in
    process,        \* self.process: "None" or "Popen"
    mmapOpen,       \* the two memory maps are open
    iterResults,    \* run_test_case's list iteration_results
    ret,            \* the TestCaseResult run_test_case is about to return
    exc,            \* the call that raised an exception, "none" if none did
    t1,             \* the test case's first input file: [exists, size]
    stateFile,      \* _state: [exists, content]
    dataFile,       \* _data: [exists, size, vote, from]
    flagFile,       \* _flag exists
    ctrl,           \* the Controller process: "none", "running", "exited"
    created,        \* the Controller created _flag since it was launched
    log,            \* what the runner did in this test case: <<i, event>>
    \* --- testing/validator.py applied to bounded inputs ---
    vIn,            \* [controller, oracle, epsilon, round]
    vOut,           \* the ValidationResult, or NoResult
    \* --- localization/sbfl.py ---
    matrix,         \* CoverageMatrix: [coverage, results]
    localizer,      \* SBFLLocalizer: [metric, total_failed, total_passed]
    changed,        \* the matrix was changed after the localizer was built
    ranked,         \* the last rank_lines call on this matrix: [top_n, list]
    \* --- main.py: coverage, baseline validation, SBFL ---
    mainPc,         \* the step main is at
    mainTests,      \* test_cases: the names found, sorted
    mainIdx,        \* position of the loop main is in
    baseline,       \* baseline_results: name -> passed
    \* --- history ---
    lastAdd,        \* name -> arguments of the last add_test_case call
    \* --- main.py: the files of the instrumented build ---
    gcdaFile,       \* the counters of *.gcda: <<test case, line>> executed
    gcovFile,       \* the report <source>.gcov: the counters it was made of
    \* --- main.py: the repair loop ---
    repair,         \* [pc, attempt, max_attempts, working, previous_attempts]
    \* --- coverage/gcov_parser.py ---
    gcovLines,      \* parse_file's list `lines` of GcovLine
    gcovMarkers,    \* the <<line number, marker>> of the report lines read
    gcovRead,       \* report lines read so far
    \* --- testing/data_format.py ---
    data,           \* the buffer given to parse_state or parse_vote
    decoded         \* what the function has decoded of it

rvars == <<testCases, tcIdx, results, pc, iteration, waited, process, mmapOpen,
           iterResults, ret, exc, t1, stateFile, dataFile, flagFile, ctrl,
           created, log>>
vvars == <<vIn, vOut>>
svars == <<matrix, localizer, changed, ranked>>
mvars == <<mainPc, mainTests, mainIdx, baseline, lastAdd, gcdaFile,
           gcovFile, repair>>
gvars == <<gcovLines, gcovMarkers, gcovRead>>
dvars == <<data, decoded>>
vars  == <<rvars, vvars, svars, mvars, gvars, dvars>>

NoResult == [none |-> TRUE]

(***************************************************************************)
(* testing/data_format.py: the struct formats.  A format is the sequence   *)
(* of its fields [code, count]; struct lays them out in native alignment:  *)
(* each field starts at the next multiple of the size of its type.         *)
(***************************************************************************)
\* 'i' int32, 'I' uint32; 'Q' size_t, 'd' double
SizeOf(code) == IF code \in {"i", "I"} THEN 4 ELSE 8

\* a layout without padding
AlignPacked(offset, size) == offset

\* The first multiple of `size` at or after `offset`
Align(offset, size) == offset + ((size - (offset % size)) % size)

\* POINT_FORMAT = 'Q100dQ100dQ100dQ100diI', with `capacity` for the 100
PointFormat(capacity) ==
    <<[code |-> "Q", count |-> 1], [code |-> "d", count |-> capacity],
      [code |-> "Q", count |-> 1], [code |-> "d", count |-> capacity],
      [code |-> "Q", count |-> 1], [code |-> "d", count |-> capacity],
      [code |-> "Q", count |-> 1], [code |-> "d", count |-> capacity],
      [code |-> "i", count |-> 1], [code |-> "I", count |-> 1]>>

POINT_FORMAT == PointFormat(100)

\* VOTE_FORMAT = 'i' + POINT_FORMAT
VOTE_FORMAT == <<[code |-> "i", count |-> 1]>> \o POINT_FORMAT

\* struct.calcsize(format): the offset after the last field
RECURSIVE calcsize(_)
calcsize(format) ==
    IF format = <<>> THEN 0
    ELSE LET last == format[Len(format)]
             before == calcsize(SubSeq(format, 1, Len(format) - 1))
         IN  Align(before, SizeOf(last.code)) + last.count * SizeOf(last.code)

\* The offset at which field k of the format starts
OffsetOf(format, k) ==
    Align(calcsize(SubSeq(format, 1, k - 1)), SizeOf(format[k].code))

POINT_SIZE == calcsize(POINT_FORMAT)
VOTE_SIZE == calcsize(VOTE_FORMAT)

(***************************************************************************)
(* The contents of the IPC files                                           *)
(***************************************************************************)
\* The bytes of _state, run-length encoded: <<[tag, len], ...>>; tag 0 is a
\* zero byte of the initialisation, tag i a byte of the input file t{i}
Zeros(n) == IF n = 0 THEN <<>> ELSE <<[tag |-> 0, len |-> n]>>

RECURSIVE Size(_)
Size(c) == IF c = <<>> THEN 0 ELSE Head(c).len + Size(Tail(c))

RECURSIVE DropBytes(_, _)
DropBytes(c, n) ==
    IF n = 0 \/ c = <<>> THEN c
    ELSE IF Head(c).len <= n THEN DropBytes(Tail(c), n - Head(c).len)
    ELSE <<[tag |-> Head(c).tag, len |-> Head(c).len - n]>> \o Tail(c)

\* mmap.seek(0); mmap.write(data): the first n bytes are replaced
WriteAtStart(c, tag, n) ==
    IF n = 0 THEN c ELSE <<[tag |-> tag, len |-> n]>> \o DropBytes(c, n)

ZeroVec == [k \in 1..VoteLen |-> 0]
UnitVec(j) == [k \in 1..VoteLen |-> IF k = j THEN 1 ELSE 0]

ZeroVote   == MkVote(0, ZeroVec, ZeroVec)         \* the zero-filled _data
GoodVote   == MkVote(1, UnitVec(1), ZeroVec)
WrongIndex == MkVote(2, UnitVec(1), ZeroVec)
Orthogonal == MkVote(1, UnitVec(2), ZeroVec)

\* What a Controller may write to _data
CtrlOutputs == {GoodVote, WrongIndex, Orthogonal}

\* An input file t{i}: absent, or present with a size
InputChoices ==
    {[exists |-> FALSE, size |-> 0]} \cup
    {[exists |-> TRUE, size |-> n] : n \in 0..MaxSize}

\* An oracle file output.t{i} that exists: too short to decode, or a Vote
OracleChoices ==
    {[ok |-> FALSE, vote |-> ZeroVote],
     [ok |-> TRUE, vote |-> ZeroVote],
     [ok |-> TRUE, vote |-> GoodVote]}

NoFile == [exists |-> FALSE, size |-> 0]
Absent == [exists |-> FALSE, content |-> <<>>]
AbsentData == [exists |-> FALSE, size |-> 0, vote |-> ZeroVote, from |-> 0]

(***************************************************************************)
(* testing/runner.py: results                                              *)
(***************************************************************************)
\* TestCaseResult(...); failure_reason "None" stands for Python's None
TestCaseResult(name, passed, run, total, failed_at, reason) ==
    [test_name |-> name, passed |-> passed, iterations_run |-> run,
     iterations_total |-> total, failed_at_iteration |-> failed_at,
     failure_reason |-> reason]

\* IterationResult(iteration, validation); passed is validation.passed
IterationResult(i, validation) ==
    [iteration |-> i, validation |-> validation, passed |-> validation.passed]

\* The test case run_test_case is working on
TestCase == testCases[tcIdx]

(***************************************************************************)
(* The order of the statements of run_iteration (after the file checks)    *)
(* and of run_test_case's finally block                                    *)
(***************************************************************************)
\* run_iteration reading _data without waiting for the sentinel to return
IterationStepsNoWait == <<"wait_ready", "write", "signal", "read">>

\* run_iteration with the sentinel deleted before the input is written
IterationStepsSignalFirst ==
    <<"wait_ready", "signal", "write", "wait_response", "read">>

IterationSteps ==
    <<"wait_ready", "write", "signal", "wait_response", "read">>

\* the finally block removing the files before it stops the Controller
FinallyStepsCleanupFirst == <<"close", "cleanup", "stop">>

\* the finally block without _stop_controller
FinallyStepsNoStop == <<"close", "cleanup">>

FinallySteps == <<"stop", "close", "cleanup">>

\* The statement after `step` in `order`, "end" after the last one
StepAfter(order, step) ==
    LET k == CHOOSE j \in 1..Len(order) : order[j] = step
    IN  IF k = Len(order) THEN "end" ELSE order[k + 1]

\* A wait starts with an empty poll count
EntersWait(step) == step \in {"wait_ready", "wait_response"}

\* Take the statement after `step` of run_iteration
GoAfter(step) ==
    /\ pc' = StepAfter(IterationSteps, step)
    /\ waited' = IF EntersWait(pc') THEN 0 ELSE waited

(***************************************************************************)
(* run_test_case's loop, lines 433-447                                     *)
(***************************************************************************)
\* a loop that goes on to the next iteration after a failed one
StopsLoopNever(result) == FALSE

\* `if not result.passed: return TestCaseResult(passed=False, ...)`
StopsLoop(result) == ~result.passed

\* a loop that runs a failed iteration again
IterationReturnsRetry(result) ==
    /\ iterResults' = Append(iterResults, result)
    /\ pc' = "loop"
    /\ iteration' = IF StopsLoop(result) THEN iteration ELSE iteration + 1
    /\ UNCHANGED ret

\* run_iteration returned `result`: run_test_case returns the failure or
\* goes on with the next iteration
IterationReturns(result) ==
    /\ iterResults' = Append(iterResults, result)
    /\ IF StopsLoop(result)
       THEN
         /\ ret' = TestCaseResult(TestCase.name, FALSE, iteration,
                                  TestCase.num_iterations, iteration,
                                  ResultStr(result.validation))
         /\ pc' = Head(FinallySteps)
         /\ UNCHANGED iteration
       ELSE
         /\ iteration' = iteration + 1
         /\ pc' = "loop"
         /\ UNCHANGED ret

Logged(event) == log' = Append(log, <<iteration, event>>)

(***************************************************************************)
(* run_all_test_cases and run_test_case                                    *)
(***************************************************************************)
\* run_test_case creating _state with the default size whatever t1 is
state_size_default(first_input) == DEFAULT_STATE_SIZE

\* run_test_case, lines 405-410: state_size
state_size(first_input) ==
    IF first_input.exists THEN first_input.size ELSE DEFAULT_STATE_SIZE

\* run_all_test_cases, lines 506-514: the next test case, or return.
\* run_test_case, lines 405-413: the size of t1 and _setup_ipc_files
RunAllNext ==
    /\ pc = "all_loop"
    /\ IF tcIdx < Len(testCases)
       THEN /\ tcIdx' = tcIdx + 1
            /\ \E f \in InputChoices :
                 /\ t1' = f
                 /\ stateFile' =
                      [exists |-> TRUE, content |-> Zeros(state_size(f))]
            /\ dataFile' = [exists |-> TRUE, size |-> VOTE_SIZE,
                            vote |-> ZeroVote, from |-> 0]
            /\ log' = <<>>
            /\ ret' = NoResult
            /\ iteration' = 0
            /\ waited' = 0
            /\ iterResults' = <<>>
            /\ ctrl' = "none"      \* the process of this test case: none yet
            /\ created' = FALSE
            /\ pc' = "open_mmaps"
       ELSE /\ pc' = "returned"
            /\ UNCHANGED <<tcIdx, t1, stateFile, dataFile, log, ret,
                           iteration, waited, iterResults, ctrl, created>>
    /\ UNCHANGED <<vvars, gvars, dvars, svars, mvars,
                   testCases, results, process, mmapOpen, exc,
                   flagFile>>

\* _open_mmaps, line 414 (outside the try): mmap refuses an empty file
OpenMmaps ==
    /\ pc = "open_mmaps"
    /\ IF Size(stateFile.content) = 0
       THEN /\ exc' = "open_mmaps"
            /\ pc' = "raised"
            /\ UNCHANGED mmapOpen
       ELSE /\ mmapOpen' = TRUE
            /\ pc' = "start"
            /\ UNCHANGED exc
    /\ UNCHANGED <<vvars, gvars, dvars, svars, mvars, iterResults, testCases,
                   tcIdx, results, iteration, waited, process, ret,
                   t1, stateFile, dataFile, flagFile, ctrl, created, log>>

\* Leave a statement of the finally block: the next one, or the return /
\* re-raise of run_test_case (run_all_test_cases stores a returned result,
\* of which the dict of the model keeps `passed`, and catches no exception)
LeaveFinally(step) ==
    LET nxt == StepAfter(FinallySteps, step)
    IN  IF nxt # "end"
        THEN pc' = nxt /\ UNCHANGED results
        ELSE IF exc # "none"
        THEN pc' = "raised" /\ UNCHANGED results
        ELSE /\ pc' = "all_loop"
             /\ results' = [n \in DOMAIN results \cup {ret.test_name} |->
                              IF n = ret.test_name THEN ret.passed
                              ELSE results[n]]

\* _start_controller launching the process without unlinking the sentinel
StartControllerKeepsFlag ==
    /\ pc = "start"
    /\ \E launched \in BOOLEAN :
         IF launched
         THEN /\ process' = "Popen"
              /\ ctrl' = "running"
              /\ created' = FALSE
              /\ waited' = 0
              /\ pc' = "startup"
              /\ UNCHANGED exc
         ELSE /\ exc' = "Popen"
              /\ pc' = Head(FinallySteps)
              /\ UNCHANGED <<process, ctrl, created, waited>>
    /\ UNCHANGED <<vvars, gvars, dvars, svars, mvars, iterResults, testCases,
                   tcIdx, results, iteration, mmapOpen, ret, t1,
                   stateFile, dataFile, flagFile, log>>

\* _start_controller, lines 216-233: unlink a stale _flag, launch the process
StartController ==
    /\ pc = "start"
    /\ flagFile' = FALSE
    /\ \E launched \in BOOLEAN :
         IF launched
         THEN /\ process' = "Popen"
              /\ ctrl' = "running"
              /\ created' = FALSE
              /\ waited' = 0
              /\ pc' = "startup"
              /\ UNCHANGED exc
         ELSE /\ exc' = "Popen"
              /\ pc' = Head(FinallySteps)
              /\ UNCHANGED <<process, ctrl, created, waited>>
    /\ UNCHANGED <<vvars, gvars, dvars, svars, mvars, iterResults, testCases,
                   tcIdx, results, iteration, mmapOpen, ret, t1,
                   stateFile, dataFile, log>>

\* The startup failure returned with no failed_at_iteration
StartupFailedAtNone ==
    /\ ret' = TestCaseResult(TestCase.name, FALSE, 0, TestCase.num_iterations,
                             None, "Controller failed to start")
    /\ pc' = Head(FinallySteps)
    /\ UNCHANGED <<iteration, waited>>

\* `return TestCaseResult(... "Controller failed to start")`, lines 418-426
StartupFailed ==
    /\ ret' = TestCaseResult(TestCase.name, FALSE, 0, TestCase.num_iterations,
                             0, "Controller failed to start")
    /\ pc' = Head(FinallySteps)
    /\ UNCHANGED <<iteration, waited>>

\* a startup wait that no timeout ends
StartupTimedOutNever(elapsed) == FALSE

\* `time.time() - start_time < self.startup_timeout` is false; the time is
\* counted in polls, StartupPolls of them fit in the timeout
StartupTimedOut(elapsed) == elapsed >= StartupPolls

\* The time a loop test may read after n sleeps: n polls or more
Clock(n, limit) == n..limit

\* _start_controller, lines 234-237: the loop test and flag_file.exists()
StartupCheckFlag ==
    /\ pc = "startup"
    /\ \E elapsed \in Clock(waited, StartupPolls) :
         IF StartupTimedOut(elapsed)
         THEN StartupFailed /\ UNCHANGED iterResults
         ELSE IF flagFile
         THEN /\ iteration' = 1
              /\ iterResults' = <<>>
              /\ pc' = "loop"
              /\ UNCHANGED <<ret, waited>>
         ELSE /\ pc' = "startup_poll"
              /\ UNCHANGED <<ret, iteration, waited, iterResults>>
    /\ UNCHANGED <<vvars, gvars, dvars, svars, mvars, testCases, tcIdx, results,
                   process,
                   mmapOpen, exc, t1,
                   stateFile, dataFile, flagFile, ctrl, created, log>>

\* _start_controller, lines 238-241: process.poll() and the sleep
StartupCheckPoll ==
    /\ pc = "startup_poll"
    /\ IF ctrl = "exited"
       THEN StartupFailed
       ELSE /\ waited' = Min2(waited + 1, StartupPolls)
            /\ pc' = "startup"
            /\ UNCHANGED <<ret, iteration>>
    /\ UNCHANGED <<vvars, gvars, dvars, svars, mvars, testCases, tcIdx, results,
                   process,
                   mmapOpen, exc, t1,
                   iterResults,
                   stateFile, dataFile, flagFile, ctrl, created, log>>

(***************************************************************************)
(* run_iteration                                                           *)
(***************************************************************************)
\* a failure of run_iteration that counts as passed
FailedAsPassed(i, detail) ==
    IterationResult(i, ValidationResult(TRUE, detail))

Failed(i, detail) == IterationResult(i, ValidationResult(FALSE, detail))

\* run_test_case, line 430, and run_iteration, lines 320-333: the loop test
\* and the two file checks
RunIterationBegin ==
    /\ pc = "loop"
    /\ iteration <= TestCase.num_iterations
    /\ \E inputExists \in (IF iteration = 1 THEN {t1.exists} ELSE BOOLEAN),
          oracleExists \in BOOLEAN :
         IF ~inputExists
         THEN /\ IterationReturns(Failed(iteration, "Input file not found"))
              /\ UNCHANGED waited
         ELSE IF ~oracleExists
         THEN /\ IterationReturns(Failed(iteration, "Oracle file not found"))
              /\ UNCHANGED waited
         ELSE /\ pc' = Head(IterationSteps)
              /\ waited' = 0
              /\ UNCHANGED <<ret, iteration, iterResults>>
    /\ UNCHANGED <<vvars, gvars, dvars, svars, mvars, testCases, tcIdx, results,
                   process,
                   mmapOpen, exc, t1,
                   stateFile, dataFile, flagFile, ctrl, created, log>>

\* run_test_case, lines 449-458: all iterations passed
AllPassed ==
    /\ pc = "loop"
    /\ iteration > TestCase.num_iterations
    /\ ret' = TestCaseResult(TestCase.name, TRUE, TestCase.num_iterations,
                             TestCase.num_iterations, None, "None")
    /\ pc' = Head(FinallySteps)
    /\ UNCHANGED <<vvars, gvars, dvars, svars, mvars, iterResults, testCases,
                   tcIdx, results, iteration, waited, process,
                   mmapOpen, exc, t1, stateFile, dataFile, flagFile, ctrl,
                   created, log>>

Waits == {"wait_ready", "wait_response"}
PollPc(step) ==
    IF step = "wait_ready" THEN "wait_ready_poll" ELSE "wait_response_poll"
FailedPc(step) ==
    IF step = "wait_ready" THEN "wait_ready_failed" ELSE "wait_response_failed"

\* `time.time() - start_time < timeout` is false, in _wait_for_flag
WaitTimedOut(elapsed) == elapsed >= IterationPolls

\* _wait_for_flag, lines 275-277: the loop test and flag_file.exists()
WaitCheckFlag(step) ==
    /\ pc = step
    /\ \E elapsed \in Clock(waited, IterationPolls) :
         IF WaitTimedOut(elapsed)
         THEN /\ pc' = FailedPc(step)      \* return False
              /\ UNCHANGED <<waited, log>>
         ELSE IF flagFile
         THEN /\ Logged("seen")            \* return True
              /\ GoAfter(step)
         ELSE /\ pc' = PollPc(step)
              /\ UNCHANGED <<waited, log>>
    /\ UNCHANGED <<vvars, gvars, dvars, svars, mvars, testCases, tcIdx, results,
                   iteration,
                   process, mmapOpen,
                   iterResults, ret, exc, t1, stateFile, dataFile, flagFile,
                   ctrl, created>>

\* _wait_for_flag, lines 279-281: process.poll() and the sleep
WaitCheckPoll(step) ==
    /\ pc = PollPc(step)
    /\ IF process # "None" /\ ctrl = "exited"
       THEN pc' = FailedPc(step) /\ UNCHANGED waited
       ELSE pc' = step /\ waited' = Min2(waited + 1, IterationPolls)
    /\ UNCHANGED <<vvars, gvars, dvars, svars, mvars, iterResults, testCases,
                   tcIdx, results, iteration, process, mmapOpen,
                   ret, exc, t1, stateFile, dataFile, flagFile, ctrl, created,
                   log>>

\* a classification that calls every failed wait a timeout
WaitFailureAlwaysTimeout(step, exited) ==
    IF step = "wait_ready" THEN "Timeout waiting for controller to be ready"
    ELSE "Timeout waiting for controller response"

\* run_iteration, lines 337-345 and 357-365: the reason of a failed wait
WaitFailure(step, exited) ==
    IF exited
    THEN IF step = "wait_ready" THEN "Controller exited with code"
         ELSE "Controller crashed during iteration"
    ELSE IF step = "wait_ready"
         THEN "Timeout waiting for controller to be ready"
         ELSE "Timeout waiting for controller response"

\* run_iteration after _wait_for_flag returned False: poll the process again
WaitFailed(step) ==
    /\ pc = FailedPc(step)
    /\ IterationReturns(
         Failed(iteration,
                WaitFailure(step, process # "None" /\ ctrl = "exited")))
    /\ UNCHANGED <<vvars, gvars, dvars, svars, mvars,
                   testCases, tcIdx, results, waited, process,
                   mmapOpen, exc,
                   t1, stateFile, dataFile, flagFile, ctrl, created, log>>

\* run_iteration, lines 348-350, and _write_state: mmap.write raises
\* ValueError when the data is longer than the map
WriteState ==
    /\ pc = "write"
    /\ \E size \in (IF iteration = 1 THEN {t1.size} ELSE 0..MaxSize) :
         IF size > Size(stateFile.content)
         THEN /\ exc' = "write_state"
              /\ pc' = Head(FinallySteps)
              /\ UNCHANGED <<stateFile, log, waited>>
         ELSE /\ stateFile' =
                   [stateFile EXCEPT
                      !.content = WriteAtStart(@, iteration, size)]
              /\ Logged("write")
              /\ GoAfter("write")
              /\ UNCHANGED exc
    /\ UNCHANGED <<vvars, gvars, dvars, svars, mvars, iterResults, testCases,
                   tcIdx, results, iteration, process, mmapOpen,
                   ret, t1, dataFile, flagFile, ctrl, created>>

\* _signal_controller, line 353: unlink _flag
SignalController ==
    /\ pc = "signal"
    /\ flagFile' = FALSE
    /\ Logged("delete")
    /\ GoAfter("signal")
    /\ UNCHANGED <<vvars, gvars, dvars, svars, mvars, iterResults, testCases,
                   tcIdx, results, iteration, process, mmapOpen,
                   ret, exc, t1, stateFile, dataFile, ctrl, created>>

\* The event of reading _data, with whether the oracle file then decoded
LoggedRead(ok) == log' = Append(log, <<iteration, "read", ok>>)

\* lines 371-381 with an oracle file that does not decode taken for zeros
ParseAndValidateNoExcept(output_vote, oracle, round) ==
    validate_iteration(output_vote, oracle.vote, DefaultEpsilon, round)

\* run_iteration, lines 371-381: parse_vote of the VOTE_SIZE bytes read from
\* _data (they always decode), parse_vote_file of the oracle file, which
\* raises when it does not decode, validate_iteration, and the `except`
ParseAndValidate(output_vote, oracle, round) ==
    IF oracle.ok
    THEN validate_iteration(output_vote, oracle.vote, DefaultEpsilon, round)
    ELSE ValidationResult(FALSE, "Parse error")

\* run_iteration, lines 368-389: _read_data, parse both Votes, validate
ReadAndValidate ==
    /\ pc = "read"
    /\ \E o \in OracleChoices, round \in Roundings :
         /\ LoggedRead(o.ok)
         /\ IterationReturns(
              IterationResult(iteration,
                              ParseAndValidate(dataFile.vote, o, round)))
    /\ UNCHANGED <<vvars, gvars, dvars, svars, mvars,
                   testCases, tcIdx, results, waited, process,
                   mmapOpen, exc,
                   t1, stateFile, dataFile, flagFile, ctrl, created>>

(***************************************************************************)
(* run_test_case's finally block                                           *)
(***************************************************************************)
\* _stop_controller, lines 248-255: nothing to stop, or terminate()
StopController ==
    /\ pc = "stop"
    /\ IF process = "None"
       THEN LeaveFinally("stop")
       ELSE pc' = "stop_wait" /\ UNCHANGED results
    /\ UNCHANGED <<vvars, gvars, dvars, svars, mvars, iterResults, testCases,
                   tcIdx, iteration, waited, process, mmapOpen,
                   ret, exc, t1, stateFile, dataFile, flagFile, ctrl, created,
                   log>>

\* _stop_controller, lines 256-265: wait(timeout=2), then kill() and wait()
StopWait ==
    /\ pc = "stop_wait"
    /\ ctrl' = "exited"
    /\ process' = "None"
    /\ LeaveFinally("stop")
    /\ UNCHANGED <<vvars, gvars, dvars, svars, mvars, iterResults, testCases,
                   tcIdx, iteration, waited, mmapOpen, ret, exc,
                   t1, stateFile, dataFile, flagFile, created, log>>

\* _close_mmaps
CloseMmaps ==
    /\ pc = "close"
    /\ mmapOpen' = FALSE
    /\ LeaveFinally("close")
    /\ UNCHANGED <<vvars, gvars, dvars, svars, mvars, iterResults, testCases,
                   tcIdx, iteration, waited, process, ret, exc, t1,
                   stateFile, dataFile, flagFile, ctrl, created, log>>

\* _cleanup_ipc_files: unlink _state, _data and _flag
CleanupIpcFiles ==
    /\ pc = "cleanup"
    /\ stateFile' = Absent
    /\ dataFile' = AbsentData
    /\ flagFile' = FALSE
    /\ LeaveFinally("cleanup")
    /\ UNCHANGED <<vvars, gvars, dvars, svars, mvars, iterResults, testCases,
                   tcIdx, iteration, waited, process, mmapOpen,
                   ret, exc, t1, ctrl, created, log>>

(***************************************************************************)
(* The Controller: an external, untrusted process.  While it runs it may   *)
(* create the sentinel, write an output, or exit, at any moment.           *)
(***************************************************************************)
CtrlCreateFlag ==
    /\ ctrl = "running"
    /\ ~flagFile
    /\ flagFile' = TRUE
    /\ created' = TRUE
    /\ UNCHANGED <<vvars, gvars, dvars, svars, mvars, iterResults, testCases,
                   tcIdx, results, pc, iteration, waited, process,
                   mmapOpen, ret, exc, t1, stateFile, dataFile, ctrl, log>>

\* The Controller reads _state and writes a Vote to _data while the
\* sentinel is absent; `from` records the input it read (0: the zero fill)
CtrlProcess ==
    /\ ctrl = "running"
    /\ ~flagFile
    /\ stateFile.exists /\ dataFile.exists
    /\ \E v \in CtrlOutputs :
         dataFile' = [dataFile EXCEPT
                        !.vote = v,
                        !.from = IF stateFile.content = <<>> THEN 0
                                 ELSE Head(stateFile.content).tag]
    /\ dataFile' # dataFile
    /\ UNCHANGED <<vvars, gvars, dvars, svars, mvars, iterResults, testCases,
                   tcIdx, results, pc, iteration, waited, process,
                   mmapOpen, ret, exc, t1, stateFile, flagFile, ctrl, created,
                   log>>

CtrlExit ==
    /\ ctrl = "running"
    /\ ctrl' = "exited"
    /\ UNCHANGED <<vvars, gvars, dvars, svars, mvars, iterResults, testCases,
                   tcIdx, results, pc, iteration, waited, process,
                   mmapOpen, ret, exc, t1, stateFile, dataFile, flagFile,
                   created, log>>

(***************************************************************************)
(* Spec: the runner and the Controller                                     *)
(***************************************************************************)
TestCaseLists ==
    UNION {[1..k -> 1..MaxIterations] : k \in 1..MaxTestCases}

\* The values the variables of the other specifications rest at
ValidateIdle == vIn = NoResult /\ vOut = NoResult
SbflIdle ==
    /\ matrix = [coverage |-> <<>>, results |-> <<>>]
    /\ localizer = NoResult
    /\ changed = FALSE
    /\ ranked = NoResult
MainIdle ==
    /\ mainPc = "idle" /\ mainTests = <<>> /\ mainIdx = 0
    /\ baseline = <<>> /\ lastAdd = <<>>
    /\ gcdaFile = {} /\ gcovFile = NoResult
RepairIdle == repair = NoResult
GcovIdle == gcovLines = <<>> /\ gcovMarkers = {} /\ gcovRead = 0
DataIdle == data = NoResult /\ decoded = NoResult
RunnerIdle ==
    /\ testCases = <<>> /\ tcIdx = 0 /\ results = <<>> /\ pc = "idle"
    /\ iteration = 0 /\ waited = 0 /\ process = "None" /\ mmapOpen = FALSE
    /\ iterResults = <<>>
    /\ ret = NoResult /\ exc = "none" /\ t1 = NoFile /\ stateFile = Absent
    /\ dataFile = AbsentData /\ flagFile = FALSE /\ ctrl = "none"
    /\ created = FALSE /\ log = <<>>

Init ==
    /\ \E ns \in TestCaseLists :
         testCases = [k \in DOMAIN ns |->
                        [name |-> k, num_iterations |-> ns[k]]]
    /\ tcIdx = 0
    /\ results = <<>>
    /\ pc = "all_loop"
    /\ iteration = 0
    /\ waited = 0
    /\ process = "None"
    /\ mmapOpen = FALSE
    /\ iterResults = <<>>
    /\ ret = NoResult
    /\ exc = "none"
    /\ t1 = NoFile
    /\ stateFile = Absent
    /\ dataFile = AbsentData
    /\ flagFile \in BOOLEAN         \* a sentinel may be left by an earlier run
    /\ ctrl = "none"
    /\ created = FALSE
    /\ log = <<>>
    /\ ValidateIdle
    /\ SbflIdle
    /\ MainIdle
    /\ RepairIdle
    /\ GcovIdle
    /\ DataIdle

Runner ==
    \/ RunAllNext
    \/ OpenMmaps
    \/ StartController
    \/ StartupCheckFlag
    \/ StartupCheckPoll
    \/ RunIterationBegin
    \/ AllPassed
    \/ \E step \in Waits : WaitCheckFlag(step)
    \/ \E step \in Waits : WaitCheckPoll(step)
    \/ \E step \in Waits : WaitFailed(step)
    \/ WriteState
    \/ SignalController
    \/ ReadAndValidate
    \/ StopController
    \/ StopWait
    \/ CloseMmaps
    \/ CleanupIpcFiles

Controller == CtrlCreateFlag \/ CtrlProcess \/ CtrlExit

Next == Runner \/ Controller

Spec == Init /\ [][Next]_vars

\* The runner is a sequential program that keeps executing; the Controller
\* is under no obligation
SpecFair == Spec /\ WF_vars(Runner)

(***************************************************************************)
(* A Controller that follows the handshake: it creates the sentinel once   *)
(* when it is ready, reads _state and writes _data only while the sentinel *)
(* is absent, and recreates the sentinel after writing its output.  While  *)
(* it has written its output and not yet recreated the sentinel, ctrl is   *)
(* "answered".                                                             *)
(***************************************************************************)
\* The iteration whose input the runner wrote to _state last (0: none yet)
LastWritten ==
    LET writes == SelectSeq(log, LAMBDA e : e[2] = "write")
    IN  IF writes = <<>> THEN 0 ELSE writes[Len(writes)][1]

HsReady ==
    /\ ~created
    /\ CtrlCreateFlag

HsProcess ==
    /\ ctrl = "running"
    /\ created
    /\ ~flagFile
    /\ stateFile.exists /\ dataFile.exists
    /\ \E v \in CtrlOutputs :
         dataFile' = [dataFile EXCEPT !.vote = v, !.from = LastWritten]
    /\ ctrl' = "answered"
    /\ UNCHANGED <<vvars, gvars, dvars, svars, mvars, iterResults, testCases,
                   tcIdx, results, pc, iteration, waited, process,
                   mmapOpen, ret, exc, t1, stateFile, flagFile, created,
                   log>>

HsRespond ==
    /\ ctrl = "answered"
    /\ flagFile' = TRUE
    /\ ctrl' = "running"
    /\ UNCHANGED <<vvars, gvars, dvars, svars, mvars, iterResults, testCases,
                   tcIdx, results, pc, iteration, waited, process,
                   mmapOpen, ret, exc, t1, stateFile, dataFile, created,
                   log>>

HsExit ==
    /\ ctrl \in {"running", "answered"}
    /\ ctrl' = "exited"
    /\ UNCHANGED <<vvars, gvars, dvars, svars, mvars, iterResults, testCases,
                   tcIdx, results, pc, iteration, waited, process,
                   mmapOpen, ret, exc, t1, stateFile, dataFile, flagFile,
                   created, log>>

HandshakeController == HsReady \/ HsProcess \/ HsRespond \/ HsExit

NextHandshake == Runner \/ HandshakeController

SpecHandshake == Init /\ [][NextHandshake]_vars

(***************************************************************************)
(* Properties of the runner                                                *)
(***************************************************************************)
IsPrefix(a, b) == Len(a) <= Len(b) /\ a = SubSeq(b, 1, Len(a))

\* What the runner did in iteration i of the test case, in order
EventsOf(i) ==
    LET mine == SelectSeq(log, LAMBDA e : e[1] = i)
    IN  [k \in 1..Len(mine) |-> mine[k][2]]

\* ready -> write input -> signal consume -> wait-for-processed -> read output
Handshake == <<"seen", "write", "delete", "seen", "read">>

\* run_test_case has returned or raised (or was never called)
Outside == pc \in {"all_loop", "returned", "raised"}

\* C1: in every iteration the runner's steps are, in this order: see the
\* sentinel, write the input to _state, delete the sentinel, see the sentinel
\* again, read _data; so no write of _state and no read of _data falls
\* between the deletion and the next sighting of the sentinel, and the
\* iterations follow one another without overlapping.
C1_PhaseOrder ==
    /\ \A i \in 1..MaxIterations : IsPrefix(EventsOf(i), Handshake)
    /\ \A k \in 1..Len(log) - 1 :
         \/ log[k][1] = log[k + 1][1]
         \/ /\ log[k + 1][1] = log[k][1] + 1
            /\ log[k][2] = "read"

\* C1 witness: a second iteration has gone through the whole handshake
C1_Witness ==
    /\ EventsOf(1) = Handshake
    /\ EventsOf(2) = Handshake

\* The first iteration whose result is not a pass (0: there is none)
FirstFailed ==
    LET bad == {k \in 1..Len(iterResults) : ~iterResults[k].passed}
    IN  IF bad = {} THEN 0 ELSE CHOOSE k \in bad : \A j \in bad : k <= j

\* C2: once iteration i is the first that does not pass, run_test_case
\* returns passed=False with iterations_run = failed_at_iteration = i, and
\* no later iteration is run or started: nothing is logged for any j > i.
C2_StopAtFirstFailure ==
    FirstFailed # 0 =>
      /\ ret # NoResult
      /\ ~ret.passed
      /\ ret.iterations_run = FirstFailed
      /\ ret.failed_at_iteration = FirstFailed
      /\ Len(iterResults) = FirstFailed
      /\ \A k \in 1..Len(log) : log[k][1] <= FirstFailed
      /\ iterResults[FirstFailed].iteration = FirstFailed
      /\ (Outside /\ exc = "none") => results[TestCase.name] = FALSE

\* C2 witness: the Controller's output of iteration 1 failed validation in a
\* test case of two iterations, and run_test_case has returned
C2_Witness ==
    /\ pc = "all_loop"
    /\ FirstFailed = 1
    /\ TestCase.num_iterations = 2
    /\ EventsOf(1) = Handshake
    /\ ret.failure_reason = "FAIL: cosine_distance"

InStartup == pc \in {"startup", "startup_poll"}

\* The result of a startup failure
StartupFailure ==
    TestCaseResult(TestCase.name, FALSE, 0, TestCase.num_iterations, 0,
                   "Controller failed to start")

\* The Controller of this test case was launched, has not created the
\* sentinel, and the startup wait is over
NoSentinel == ctrl # "none" /\ ~created /\ ~InStartup

\* C3: if the launched Controller never creates the sentinel, the startup
\* wait ends (by the exit of the process or by the timeout) and
\* run_test_case returns; the result is the startup failure, no iteration
\* was attempted and nothing was written to the input buffer.
C3_StartupTerminates ==
    /\ [](NoSentinel =>
            /\ ret = StartupFailure
            /\ log = <<>> /\ iterResults = <<>> /\ iteration = 0
            /\ stateFile.exists =>
                 stateFile.content = Zeros(Size(stateFile.content)))
    /\ (InStartup ~> (created \/ Outside))

\* C3 witness: the startup timeout elapsed with the process still running
C3_Witness ==
    /\ pc = "stop" /\ ctrl = "running" /\ ~created
    /\ waited = StartupPolls
    /\ ret = StartupFailure

CrashReason(step) ==
    IF step = "wait_ready" THEN "Controller exited with code"
    ELSE "Controller crashed during iteration"
TimeoutReason(step) ==
    IF step = "wait_ready" THEN "Timeout waiting for controller to be ready"
    ELSE "Timeout waiting for controller response"

\* C5: when a wait of run_iteration (before the write, or for the response)
\* has ended without the sentinel seen, the iteration fails; its reason is
\* the crash / exit one exactly when the Controller process has exited by
\* then, and the timeout one exactly when it is still running.
C5_WaitFailureClass ==
    [][\A step \in Waits :
         (pc = FailedPc(step) /\ pc' # pc) =>
            /\ Len(iterResults') = Len(iterResults) + 1
            /\ LET r == iterResults'[Len(iterResults')]
               IN  /\ r.iteration = iteration
                   /\ ~r.passed
                   /\ r.validation.detail
                        \in {CrashReason(step), TimeoutReason(step)}
                   /\ r.validation.detail = CrashReason(step)
                        <=> ctrl = "exited"
                   /\ r.validation.detail = TimeoutReason(step)
                        <=> ctrl = "running"
                   /\ ret' # NoResult /\ ~ret'.passed
                   /\ ret'.failure_reason = r.validation.detail]_vars

\* C5 witness: the wait for the response failed with the Controller exited,
\* in the second iteration
C5_Witness ==
    /\ pc = "stop" /\ ctrl = "exited" /\ iteration = 2
    /\ ret # NoResult
    /\ ret.failure_reason = "Controller crashed during iteration"

\* The names of the test cases given to run_all_test_cases
Names == {testCases[k].name : k \in DOMAIN testCases}

\* C6: run_all_test_cases yields a result for every test case of its list,
\* and no failure inside one test case makes the call raise.
C6_OneResultEach ==
    /\ pc # "raised"
    /\ pc = "returned" => DOMAIN results = Names

(***************************************************************************)
(* SpecValidate: validate_iteration on bounded Votes                       *)
(***************************************************************************)
\* A slot vector with a, b in slots 1, 2, c in the last compared slot
\* (NUM_JOINTS), d in the first slot that is not compared
Slots(a, b, c, d) ==
    [k \in 1..VoteLen |->
       IF k = 1 THEN a ELSE IF k = 2 THEN b
       ELSE IF k = NUM_JOINTS THEN c
       ELSE IF k = NUM_JOINTS + 1 THEN d ELSE 0]

Coords == -MaxCoord..MaxCoord

ControllerVotes ==
    {MkVote(i, Slots(a, b, c, d), Slots(e, 0, 0, g)) :
        i \in 0..1, a \in Coords, b \in Coords, e \in Coords,
        c \in 0..1, d \in 0..1, g \in 0..1}

OracleVotes ==
    {MkVote(i, Slots(a, b, 0, 0), Slots(e, 0, 0, 0)) :
        i \in 0..1, a \in 0..1, b \in 0..1, e \in 0..1}

\* epsilon: 0, 0.5 (the default), 1, 1.5, 2
Epsilons == {[num |-> n, den |-> 2] : n \in 0..4}

InitValidate ==
    /\ vIn \in [controller : ControllerVotes, oracle : OracleVotes,
                epsilon : Epsilons, round : Roundings]
    /\ vOut = NoResult
    /\ RunnerIdle
    /\ SbflIdle
    /\ MainIdle
    /\ RepairIdle
    /\ GcovIdle
    /\ DataIdle

\* The call validate_iteration(controller, oracle, epsilon)
Validate ==
    /\ vOut = NoResult
    /\ vOut' = validate_iteration(vIn.controller, vIn.oracle, vIn.epsilon,
                                  vIn.round)
    /\ UNCHANGED <<vIn, rvars, svars, mvars, gvars, dvars>>

NextValidate == Validate

SpecValidate == InitValidate /\ [][NextValidate]_vars

\* The 12 compared values of a Vote: positions 1..6, then velocities 1..6
Compared(vote) ==
    <<vote.positions[1], vote.positions[2], vote.positions[3],
      vote.positions[4], vote.positions[5], vote.positions[6],
      vote.velocities[1], vote.velocities[2], vote.velocities[3],
      vote.velocities[4], vote.velocities[5], vote.velocities[6]>>

\* The cosine distance computed for the compared values of the two Votes
ComparedDistance ==
    cosine_distance(Compared(vIn.controller), Compared(vIn.oracle), vIn.round)

\* C7: validate_iteration passes iff the two idx are equal and the cosine
\* distance of the two 12-element comparison vectors is <= epsilon, the
\* boundary included; with different idx it fails with the index-mismatch
\* reason whatever the positions and velocities are.
C7_ValidateIff ==
    vOut # NoResult =>
      /\ vOut.passed <=>
           /\ vIn.controller.idx = vIn.oracle.idx
           /\ RealLeq(ComparedDistance, vIn.epsilon)
      /\ vIn.controller.idx # vIn.oracle.idx =>
           vOut = ValidationResult(FALSE, "FAIL: index mismatch")
      /\ vIn.controller.idx = vIn.oracle.idx /\ ~vOut.passed =>
           vOut.detail = "FAIL: cosine_distance"

\* C7 witness: a pass with the distance computed exactly the default
\* epsilon, 0.5: 1 - 1 / (2 * 1), a vector of four ones against a unit vector
C7_Witness ==
    /\ vOut # NoResult
    /\ vOut.passed
    /\ vIn.epsilon = DefaultEpsilon
    /\ ComparedDistance = Real(1, -1, 4, 0)

(***************************************************************************)
(* The values of cosine_distance                                           *)
(***************************************************************************)
AllZero(vec) == \A i \in DOMAIN vec : vec[i] = 0
SquaredNorm(vec) == SumSeq([i \in DOMAIN vec |-> vec[i] * vec[i]])
DotProduct(vec1, vec2) == SumSeq([i \in DOMAIN vec1 |-> vec1[i] * vec2[i]])

\* The double d is exactly the integer n
IsExactly(d, n) ==
    ExactLeq(d, Rational(n)) /\ ExactGeq(d, Rational(n)) /\ d.ulp = 0

SameCompared(vote) ==
    {[vote EXCEPT !.positions[NUM_JOINTS + 1] = d,
                  !.velocities[NUM_JOINTS + 1] = g] : d \in 0..1, g \in 0..1}

\* C22: the verdict depends only on the two idx, positions[0..6) and
\* velocities[0..6) of each Vote, and epsilon: every controller Vote that
\* agrees with the validated one on idx and the compared slots, whatever its
\* other slots hold, gets the same verdict against the same oracle.
C22_VerdictDependsOnCompared ==
    vOut # NoResult =>
      \A other \in SameCompared(vIn.controller) :
         /\ other.idx = vIn.controller.idx
         /\ Compared(other) = Compared(vIn.controller)
         /\ validate_iteration(other, vIn.oracle, vIn.epsilon, vIn.round)
              = vOut

\* A Vote validated and passed whose slots after the sixth are not zero,
\* while those of the oracle are
C22_Witness ==
    /\ vOut # NoResult
    /\ vOut.passed
    /\ vIn.controller.positions[NUM_JOINTS + 1] = 1
    /\ vIn.controller.velocities[NUM_JOINTS + 1] = 1
    /\ vIn.oracle.positions[NUM_JOINTS + 1] = 0
    /\ ~AllZero(Compared(vIn.oracle))

(***************************************************************************)
(* localization/sbfl.py: CoverageMatrix                                    *)
(***************************************************************************)
TestNames == {"n1", "p1", "p2"}
Lines == 1..MaxLine

\* dict[key] = value
DictSet(d, key, value) ==
    [k \in DOMAIN d \cup {key} |-> IF k = key THEN value ELSE d[k]]

\* add_test_case that records the covered lines and no verdict
add_test_case_coverage_only(m, name, covered_lines, passed) ==
    [coverage |-> DictSet(m.coverage, name, covered_lines),
     results |-> m.results]

\* add_test_case that keeps the entry a name already has
add_test_case_first_wins(m, name, covered_lines, passed) ==
    IF name \in DOMAIN m.coverage THEN m
    ELSE [coverage |-> DictSet(m.coverage, name, covered_lines),
          results |-> DictSet(m.results, name, passed)]

\* CoverageMatrix.add_test_case(name, covered_lines, passed)
add_test_case(m, name, covered_lines, passed) ==
    [coverage |-> DictSet(m.coverage, name, covered_lines),
     results |-> DictSet(m.results, name, passed)]

\* CoverageMatrix.all_lines
all_lines(m) == UNION {m.coverage[n] : n \in DOMAIN m.coverage}

\* CoverageMatrix.num_failing, num_passing
num_failing(m) == Cardinality({n \in DOMAIN m.results : ~m.results[n]})
num_passing(m) == Cardinality({n \in DOMAIN m.results : m.results[n]})

(***************************************************************************)
(* localization/sbfl.py: scores.  A score is num / den, or num / sqrt(den) *)
(* when root, or +infinity when inf; den > 0.  Within the bounds two       *)
(* scores of a matrix are equal as doubles exactly when they are equal as  *)
(* reals.                                                                  *)
(***************************************************************************)
\* What a division by zero raises
ZeroDivisionError == [raised |-> "ZeroDivisionError"]

\* num / den, or num / math.sqrt(den) when root
Score(num, den, root) ==
    IF den = 0 THEN ZeroDivisionError
    ELSE [num |-> IF den < 0 THEN -num ELSE num,
          den |-> IF den < 0 THEN -den ELSE den,
          root |-> root, inf |-> FALSE]
Infinity == [num |-> 1, den |-> 1, root |-> FALSE, inf |-> TRUE]
Zero(root) == Score(0, 1, root)
One == Score(1, 1, FALSE)

\* a < b, for two scores of the same metric
ScoreLess(a, b) ==
    IF a.inf THEN FALSE
    ELSE IF b.inf THEN TRUE
    ELSE IF a.root
    THEN a.num * a.num * b.den < b.num * b.num * a.den
    ELSE a.num * b.den < b.num * a.den

ScoreEq(a, b) == ~ScoreLess(a, b) /\ ~ScoreLess(b, a)

\* _compute_counts with nf and np taken from the wrong totals
compute_counts_swapped(loc, m, line) ==
    LET ef == Cardinality({n \in DOMAIN m.coverage :
                             line \in m.coverage[n] /\ ~m.results[n]})
        ep == Cardinality({n \in DOMAIN m.coverage :
                             line \in m.coverage[n] /\ m.results[n]})
    IN  [ef |-> ef, ep |-> ep,
         nf |-> loc.total_passed - ef, np |-> loc.total_failed - ep]

\* SBFLLocalizer._compute_counts(line)
compute_counts(loc, m, line) ==
    LET ef == Cardinality({n \in DOMAIN m.coverage :
                             line \in m.coverage[n] /\ ~m.results[n]})
        ep == Cardinality({n \in DOMAIN m.coverage :
                             line \in m.coverage[n] /\ m.results[n]})
    IN  [ef |-> ef, ep |-> ep,
         nf |-> loc.total_failed - ef, np |-> loc.total_passed - ep]

\* SBFLLocalizer.ochiai(line)
ochiai(loc, m, line) ==
    LET c == compute_counts(loc, m, line)
        radicand == loc.total_failed * (c.ef + c.ep)
    IN  IF loc.total_failed = 0 THEN Zero(TRUE)
        ELSE IF radicand = 0 THEN Zero(TRUE)
        ELSE Score(c.ef, radicand, TRUE)

\* tarantula calling every line suspicious when there is no passing test
tarantula_no_pass_one(loc, m, line) ==
    LET c == compute_counts(loc, m, line)
        F == loc.total_failed
        P == loc.total_passed
    IN  IF F = 0 THEN Zero(FALSE)
        ELSE IF P = 0 THEN One
        ELSE IF c.ef * P + c.ep * F = 0 THEN Zero(FALSE)
        ELSE Score(c.ef * F * P, F * (c.ef * P + c.ep * F), FALSE)

\* SBFLLocalizer.tarantula(line): fail_ratio / (fail_ratio + pass_ratio)
tarantula(loc, m, line) ==
    LET c == compute_counts(loc, m, line)
        F == loc.total_failed
        P == loc.total_passed
    IN  IF F = 0 THEN Zero(FALSE)
        ELSE IF P = 0 THEN (IF c.ef > 0 THEN One ELSE Zero(FALSE))
        ELSE IF c.ef * P + c.ep * F = 0 THEN Zero(FALSE)
        ELSE Score(c.ef * F * P, F * (c.ef * P + c.ep * F), FALSE)

\* dstar dividing by ep + np
dstar_np(loc, m, line) ==
    LET c == compute_counts(loc, m, line)
        denominator == c.ep + c.np
    IN  IF denominator = 0
        THEN (IF c.ef > 0 THEN Infinity ELSE Zero(FALSE))
        ELSE Score(c.ef * c.ef, denominator, FALSE)

\* SBFLLocalizer.dstar(line, star=2)
dstar(loc, m, line) ==
    LET c == compute_counts(loc, m, line)
        denominator == c.ep + c.nf
    IN  IF denominator = 0
        THEN (IF c.ef > 0 THEN Infinity ELSE Zero(FALSE))
        ELSE Score(c.ef * c.ef, denominator, FALSE)

\* jaccard dividing without a look at the denominator
jaccard_unguarded(loc, m, line) ==
    LET c == compute_counts(loc, m, line)
    IN  Score(c.ef, c.ef + c.nf + c.ep, FALSE)

\* SBFLLocalizer.jaccard(line)
jaccard(loc, m, line) ==
    LET c == compute_counts(loc, m, line)
        denominator == c.ef + c.nf + c.ep
    IN  IF denominator = 0 THEN Zero(FALSE)
        ELSE Score(c.ef, denominator, FALSE)

Metrics == {"ochiai", "tarantula", "dstar", "jaccard"}

\* SBFLLocalizer.compute_score(line)
compute_score(loc, m, line) ==
    IF loc.metric = "ochiai" THEN ochiai(loc, m, line)
    ELSE IF loc.metric = "tarantula" THEN tarantula(loc, m, line)
    ELSE IF loc.metric = "dstar" THEN dstar(loc, m, line)
    ELSE jaccard(loc, m, line)

\* SuspiciousnessScore(line, score, ef, ep, nf, np)
SuspiciousnessScore(loc, m, line) ==
    LET c == compute_counts(loc, m, line)
    IN  [line |-> line, score |-> compute_score(loc, m, line),
         ef |-> c.ef, ep |-> c.ep, nf |-> c.nf, np |-> c.np]

\* SBFLLocalizer.compute_all_scores(): one entry per line of all_lines, in
\* the order `order` in which the set is iterated
compute_all_scores(loc, m, order) ==
    [k \in 1..Len(order) |-> SuspiciousnessScore(loc, m, order[k])]

\* the sort key without the line number: key=lambda s: -s.score
KeyBeforeScoreOnly(a, b) == ScoreLess(b.score, a.score)

\* (-a.score, a.line) < (-b.score, b.line), the order of rank_lines' sort key
KeyBefore(a, b) ==
    \/ ScoreLess(b.score, a.score)
    \/ ScoreEq(a.score, b.score) /\ a.line < b.line

\* list.sort(key=...) is a stable sort: x goes before the first entry that
\* its key is before
RECURSIVE Insert(_, _)
Insert(sorted, x) ==
    IF sorted = <<>> THEN <<x>>
    ELSE IF KeyBefore(x, Head(sorted)) THEN <<x>> \o sorted
    ELSE <<Head(sorted)>> \o Insert(Tail(sorted), x)

RECURSIVE SortScores(_)
SortScores(scores) ==
    IF scores = <<>> THEN <<>>
    ELSE Insert(SortScores(SubSeq(scores, 1, Len(scores) - 1)),
                scores[Len(scores)])

\* rank_lines returning one entry more than asked for
rank_lines_one_more(loc, m, top_n, order) ==
    LET scores == SortScores(compute_all_scores(loc, m, order))
    IN  IF top_n # None THEN Take(scores, top_n + 1) ELSE scores

\* SBFLLocalizer.rank_lines(top_n), top_n None or >= 0
rank_lines(loc, m, top_n, order) ==
    LET scores == SortScores(compute_all_scores(loc, m, order))
    IN  IF top_n # None THEN Take(scores, top_n) ELSE scores

\* The exception that leaves rank_lines from compute_all_scores, "none" when
\* every score is computed
rank_lines_raises(loc, m, order) ==
    LET scores == compute_all_scores(loc, m, order)
    IN  IF \E k \in DOMAIN scores : scores[k].score = ZeroDivisionError
        THEN "ZeroDivisionError" ELSE "none"

\* The outcome of a rank_lines call: the exception, or the list returned
RankOutcome(loc, m, top_n, order) ==
    LET raised == rank_lines_raises(loc, m, order)
    IN  [top_n |-> top_n, raised |-> raised,
         list |-> IF raised = "none" THEN rank_lines(loc, m, top_n, order)
                  ELSE <<>>]

(***************************************************************************)
(* Fault localization: a CoverageMatrix is filled (collect_coverage), its  *)
(* verdicts are overwritten with the baseline results (main), an           *)
(* SBFLLocalizer is constructed on it and rank_lines is called.  The       *)
(* localizer keeps a reference to the matrix, so a later change of the     *)
(* matrix is seen by the rank_lines call.  The matrix is changed at most    *)
(* once after the localizer was constructed, and rank_lines is the last    *)
(* call.                                                                   *)
(***************************************************************************)
\* The orders in which a set of lines can be iterated
Orders(S) ==
    {p \in [1..Cardinality(S) -> S] :
        \A i, j \in DOMAIN p : p[i] = p[j] => i = j}

\* top_n: None, or a number of entries
TopNs == {None} \cup 0..(MaxLine + 1)

InitSbfl ==
    /\ SbflIdle
    /\ RunnerIdle
    /\ ValidateIdle
    /\ MainIdle
    /\ RepairIdle
    /\ GcovIdle
    /\ DataIdle

\* matrix.add_test_case(name, covered_lines, passed)
AddTestCase ==
    /\ ~changed
    /\ ranked = NoResult
    /\ \E name \in TestNames, covered_lines \in SUBSET Lines,
          passed \in BOOLEAN :
         matrix' = add_test_case(matrix, name, covered_lines, passed)
    /\ changed' = (localizer # NoResult)
    /\ UNCHANGED <<rvars, vvars, gvars, dvars, mvars, localizer, ranked>>

\* coverage_matrix.results[tc_name] = result.passed, for a test case of the
\* matrix
OverwriteResult ==
    /\ ~changed
    /\ ranked = NoResult
    /\ \E tc_name \in DOMAIN matrix.coverage, passed \in BOOLEAN :
         matrix' = [matrix EXCEPT !.results = DictSet(@, tc_name, passed)]
    /\ changed' = (localizer # NoResult)
    /\ UNCHANGED <<rvars, vvars, gvars, dvars, mvars, localizer, ranked>>

\* SBFLLocalizer(matrix, source_lines, metric): the totals are computed here
NewLocalizer ==
    /\ localizer = NoResult
    /\ \E metric \in Metrics :
         localizer' = [metric |-> metric,
                       total_failed |-> num_failing(matrix),
                       total_passed |-> num_passing(matrix)]
    /\ UNCHANGED <<rvars, vvars, gvars, dvars, mvars, matrix, changed, ranked>>

\* localizer.rank_lines(top_n)
RankLines ==
    /\ localizer # NoResult
    /\ ranked = NoResult
    /\ \E top_n \in TopNs, order \in Orders(all_lines(matrix)) :
         ranked' = RankOutcome(localizer, matrix, top_n, order)
    /\ UNCHANGED <<rvars, vvars, gvars, dvars, mvars, matrix, localizer,
                   changed>>

NextSbfl == AddTestCase \/ OverwriteResult \/ NewLocalizer \/ RankLines

SpecSbfl == InitSbfl /\ [][NextSbfl]_vars

(***************************************************************************)
(* Properties of rank_lines                                                *)
(***************************************************************************)
Ranked == ranked # NoResult

\* C8: the list rank_lines returns is sorted by non-increasing score, and
\* two entries with equal scores appear in increasing line order.
C8_RankSorted ==
    Ranked =>
        \A i, j \in DOMAIN ranked.list :
            i < j =>
                /\ ~ScoreLess(ranked.list[i].score, ranked.list[j].score)
                /\ ScoreEq(ranked.list[i].score, ranked.list[j].score)
                     => ranked.list[i].line < ranked.list[j].line

\* rank_lines returned two lines with equal positive scores
C8_Witness ==
    /\ Ranked
    /\ \E i, j \in DOMAIN ranked.list :
         /\ i < j
         /\ ScoreEq(ranked.list[i].score, ranked.list[j].score)
         /\ ranked.list[i].score.num > 0
         /\ ranked.list[i].line < ranked.list[j].line

\* a ranks before b in the full ranking
RanksBefore(a, b) ==
    \/ ScoreLess(b.score, a.score)
    \/ ScoreEq(a.score, b.score) /\ a.line < b.line

RankedLines == {ranked.list[i].line : i \in DOMAIN ranked.list}

\* C9: rank_lines returns one score per line of the union of the covered
\* sets and none for another line; with top_n = k >= 0 it returns the first
\* min(k, n) entries of the full ranking of the n lines.
C9_RankCoversUnion ==
    Ranked =>
        LET union == UNION {matrix.coverage[n] : n \in DOMAIN matrix.coverage}
            n == Cardinality(union)
            entry(l) == SuspiciousnessScore(localizer, matrix, l)
        IN  /\ RankedLines \subseteq union
            /\ \A i, j \in DOMAIN ranked.list :
                 ranked.list[i].line = ranked.list[j].line => i = j
            /\ \A i \in DOMAIN ranked.list :
                 ranked.list[i] = entry(ranked.list[i].line)
            /\ ranked.top_n = None => RankedLines = union
            /\ ranked.top_n # None =>
                 /\ Len(ranked.list) = Min2(ranked.top_n, n)
                 /\ \A i \in DOMAIN ranked.list :
                      /\ \A j \in DOMAIN ranked.list :
                           i < j => RanksBefore(ranked.list[i], ranked.list[j])
                      /\ \A l \in union \ RankedLines :
                           RanksBefore(ranked.list[i], entry(l))

\* rank_lines(top_n=1) on a matrix with several lines returns the first entry
C9_Witness ==
    /\ Ranked
    /\ ranked.top_n = 1
    /\ Cardinality(all_lines(matrix)) > 1
    /\ Len(ranked.list) = 1
    /\ \E l \in all_lines(matrix) :
         ScoreLess(compute_score(localizer, matrix, l), ranked.list[1].score)

\* The test cases of the matrix with the given verdict, and those of them
\* that cover the line
WithVerdict(passed) ==
    {n \in DOMAIN matrix.results : matrix.results[n] = passed}
Covering(line, passed) ==
    {n \in WithVerdict(passed) :
        n \in DOMAIN matrix.coverage /\ line \in matrix.coverage[n]}

\* C10: while the matrix is as it was when the localizer was constructed,
\* for every line ef and ep count the failing and the passing test cases
\* that cover it, nf and np those that do not, ef + nf is the number of
\* failing test cases, ep + np the number of passing ones, and none of the
\* four is negative.
C10_Counters ==
    (localizer # NoResult /\ ~changed) =>
        \A line \in Lines :
            LET c == compute_counts(localizer, matrix, line)
            IN  /\ c.ef = Cardinality(Covering(line, FALSE))
                /\ c.ep = Cardinality(Covering(line, TRUE))
                /\ c.nf = Cardinality(WithVerdict(FALSE)
                                        \ Covering(line, FALSE))
                /\ c.np = Cardinality(WithVerdict(TRUE)
                                        \ Covering(line, TRUE))
                /\ c.ef + c.nf = Cardinality(WithVerdict(FALSE))
                /\ c.ep + c.np = Cardinality(WithVerdict(TRUE))
                /\ c.ef >= 0 /\ c.ep >= 0 /\ c.nf >= 0 /\ c.np >= 0
                /\ \A i \in DOMAIN (IF Ranked THEN ranked.list ELSE <<>>) :
                     ranked.list[i].line = line =>
                        /\ ranked.list[i].ef = c.ef /\ ranked.list[i].ep = c.ep
                        /\ ranked.list[i].nf = c.nf /\ ranked.list[i].np = c.np

\* A ranked line covered by one of two failing test cases and by the one
\* passing test case, on an unchanged matrix
C10_Witness ==
    /\ Ranked
    /\ ~changed
    /\ \E i \in DOMAIN ranked.list :
         /\ ranked.list[i].ef = 1 /\ ranked.list[i].nf = 1
         /\ ranked.list[i].ep = 1 /\ ranked.list[i].np = 0

(***************************************************************************)
(* Properties of the four metrics.  The counters and totals are those the  *)
(* localizer computes with; on a matrix unchanged since its construction   *)
(* they are the matrix's own (C10).                                        *)
(***************************************************************************)
Built == localizer # NoResult

\* 0 <= s <= 1 and s = 0, for a score s
InUnit(s) ==
    /\ ~s.inf
    /\ s.num >= 0
    /\ IF s.root THEN s.num * s.num <= s.den ELSE s.num <= s.den
IsZero(s) == ~s.inf /\ s.num = 0

\* Some test case of the matrix covers the line
Covered(line) == \E n \in DOMAIN matrix.coverage : line \in matrix.coverage[n]

\* C11: the Ochiai score of every line is ef / sqrt(total_failing * (ef +
\* ep)), lies in [0, 1] whenever total_failing > 0, and is 0 when
\* total_failing = 0 or no test case covers the line.
C11_OchiaiRange ==
    Built =>
        \A line \in Lines :
            LET c == compute_counts(localizer, matrix, line)
                s == ochiai(localizer, matrix, line)
            IN  /\ localizer.total_failed > 0 =>
                     /\ InUnit(s)
                     /\ c.ef * c.ef <= localizer.total_failed * (c.ef + c.ep)
                /\ (localizer.total_failed = 0 \/ ~Covered(line)) => IsZero(s)

\* C12: the D* score of every line is ef^2 / (ep + nf), finite, unless
\* ep + nf = 0, and then +infinity if ef > 0 and 0 if ef = 0.
C12_DStar ==
    Built =>
        \A line \in Lines :
            LET c == compute_counts(localizer, matrix, line)
                s == dstar(localizer, matrix, line)
            IN  IF c.ep + c.nf = 0
                THEN IF c.ef > 0 THEN s.inf ELSE IsZero(s)
                ELSE /\ ~s.inf
                     /\ ~s.root
                     /\ s.num * (c.ep + c.nf) = c.ef * c.ef * s.den

\* A D* ranking holds a line with an infinite score and one with a finite
\* positive score
C12_Witness ==
    /\ Ranked
    /\ localizer.metric = "dstar"
    /\ \E i, j \in DOMAIN ranked.list :
         /\ ranked.list[i].score.inf
         /\ ~ranked.list[j].score.inf
         /\ ranked.list[j].score.num > 0
         /\ ranked.list[j].ep + ranked.list[j].nf > 0

\* C13: the Tarantula score of a line is fr / (fr + pr) with
\* fr = ef / total_failing and pr = ep / total_passing; it is 0 when
\* total_failing = 0; when total_passing = 0 and total_failing > 0 it is 1 if
\* ef > 0 and 0 otherwise; it is 0 when fr + pr = 0; it is always in [0, 1].
C13_Tarantula ==
    Built =>
        \A line \in Lines :
            LET c == compute_counts(localizer, matrix, line)
                F == localizer.total_failed
                P == localizer.total_passed
                s == tarantula(localizer, matrix, line)
            IN  /\ InUnit(s)
                /\ F = 0 => IsZero(s)
                /\ (F > 0 /\ P = 0) =>
                     IF c.ef > 0 THEN ~s.inf /\ s.num = s.den ELSE IsZero(s)
                /\ (F > 0 /\ P > 0) =>
                     \* fr + pr = (ef * P + ep * F) / (F * P)
                     IF c.ef * P + c.ep * F = 0 THEN IsZero(s)
                     ELSE s.num * (c.ef * P + c.ep * F) = c.ef * P * s.den

\* A Tarantula ranking without passing test cases holds a line no failing
\* test case covers (0) and one a failing test case covers (1); or the
\* ranking holds a score strictly between 0 and 1
C13_Witness ==
    /\ Ranked
    /\ localizer.metric = "tarantula"
    /\ localizer.total_failed > 0
    /\ localizer.total_passed = 0
    /\ \E i, j \in DOMAIN ranked.list :
         /\ ranked.list[i].ef > 0 /\ ranked.list[i].score.num > 0
         /\ ranked.list[j].ef = 0 /\ IsZero(ranked.list[j].score)

\* C14: the Jaccard score of a line is ef / (ef + nf + ep), which is
\* ef / (total_failing + ep); it is 0 when that denominator is 0 and is
\* always in [0, 1].
C14_Jaccard ==
    Built =>
        \A line \in Lines :
            LET c == compute_counts(localizer, matrix, line)
                s == jaccard(localizer, matrix, line)
            IN  /\ c.ef + c.nf + c.ep = localizer.total_failed + c.ep
                /\ IF c.ef + c.nf + c.ep = 0 THEN IsZero(s)
                   ELSE s.num * (c.ef + c.nf + c.ep) = c.ef * s.den
                /\ InUnit(s)

(***************************************************************************)
(* rank_lines on every matrix                                              *)
(***************************************************************************)
\* C26: rank_lines returns a list, raising nothing, for every matrix whose
\* coverage and results have the same names, under each of the four metrics:
\* with no test cases, with no failing or no passing test case, with test
\* cases that cover no line, and whatever made a test case fail.
C26_RankNeverRaises ==
    (Ranked /\ DOMAIN matrix.coverage = DOMAIN matrix.results) =>
      /\ ranked.raised = "none"
      /\ Len(ranked.list) =
           IF ranked.top_n = None THEN Cardinality(all_lines(matrix))
           ELSE Min2(ranked.top_n, Cardinality(all_lines(matrix)))
      /\ \A k \in DOMAIN ranked.list :
           ranked.list[k].score # ZeroDivisionError

\* rank_lines returned for a matrix that has a failing test case covering no
\* line and no passing test case
C26_Witness ==
    /\ Ranked
    /\ ~changed
    /\ DOMAIN matrix.coverage = {"n1", "p1"}
    /\ matrix.coverage["n1"] = {}
    /\ matrix.coverage["p1"] = {1}
    /\ ~matrix.results["n1"]
    /\ ~matrix.results["p1"]
    /\ localizer.metric = "tarantula"
    /\ Len(ranked.list) = 1

(***************************************************************************)
(* CoverageMatrix under add_test_case calls alone, with the history of the *)
(* calls: for each name the arguments of the last call with that name and  *)
(* whether there was an earlier one.                                       *)
(***************************************************************************)
InitMatrix ==
    /\ SbflIdle
    /\ RunnerIdle
    /\ ValidateIdle
    /\ MainIdle
    /\ RepairIdle
    /\ GcovIdle
    /\ DataIdle

\* matrix.add_test_case(name, covered_lines, passed), recorded in lastAdd
AddTestCaseCall ==
    /\ \E name \in TestNames, covered_lines \in SUBSET Lines,
          passed \in BOOLEAN :
         /\ matrix' = add_test_case(matrix, name, covered_lines, passed)
         /\ lastAdd' = DictSet(lastAdd, name,
                               [covered_lines |-> covered_lines,
                                passed |-> passed,
                                again |-> name \in DOMAIN lastAdd])
    /\ UNCHANGED <<rvars, vvars, gvars, dvars, localizer, changed, ranked,
                   mainPc, mainTests, mainIdx, baseline, gcdaFile,
                   gcovFile, repair>>

NextMatrix == AddTestCaseCall

SpecMatrix == InitMatrix /\ [][NextMatrix]_vars

(***************************************************************************)
(* main.py, phase 2: collect_coverage, run_all_tests, the overwrite of the *)
(* verdicts, the localizer and the ranking                                 *)
(***************************************************************************)
\* sorted(test_dir.iterdir()) restricted to a set of names
NameOrder == <<"n1", "p1", "p2">>
InOrder(S) ==
    LET keep(n) == n \in S IN SelectSeq(NameOrder, keep)

\* TestCaseInfo.expected_pass: name.startswith('p')
expected_pass(name) == name \in {"p1", "p2"}

\* main overwriting the verdicts after the ranking
MainStepsOverwriteLast ==
    <<"collect", "baseline", "check", "localize", "rank", "overwrite">>

\* The order of main's steps in phase 2
MainSteps ==
    <<"collect", "baseline", "overwrite", "check", "localize", "rank">>

\* The test case a loop of main is at
MainTest == mainTests[mainIdx]

\* The end of a loop body: the next test case, or the step after the loop
MainLoopNext(step) ==
    IF mainIdx < Len(mainTests)
    THEN mainIdx' = mainIdx + 1 /\ mainPc' = step
    ELSE mainIdx' = 1 /\ mainPc' = StepAfter(MainSteps, step)

\* What an earlier run of the tool may have left in the source directory
LeftCounters == {{}, {<<"earlier", 1>>}}

\* main found a non-empty list of test cases (an empty one exits before)
InitMain ==
    /\ \E S \in SUBSET TestNames \ {{}} : mainTests = InOrder(S)
    /\ mainPc = "collect"
    /\ mainIdx = 1
    /\ baseline = <<>>
    /\ lastAdd = <<>>
    /\ gcdaFile \in LeftCounters
    /\ gcovFile \in {NoResult} \cup {[counters |-> c] : c \in LeftCounters}
    /\ RepairIdle
    /\ SbflIdle
    /\ RunnerIdle
    /\ ValidateIdle
    /\ GcovIdle
    /\ DataIdle

\* collect_coverage, lines 185-187: the *.gcda files are unlinked (the
\* report <source>.gcov is not)
CleanGcda ==
    /\ mainPc = "collect"
    /\ gcdaFile' = {}
    /\ mainPc' = "collect_run"
    /\ UNCHANGED <<rvars, vvars, gvars, dvars, svars, mainTests, mainIdx,
                   baseline, lastAdd, gcovFile, repair>>

\* lines 189-194: the coverage runner has run and ended when subprocess.run
\* returns; at its exit it adds the lines it executed to the counters, or it
\* died before writing them, or subprocess.run raises TimeoutExpired
RunCoverage ==
    /\ mainPc = "collect_run"
    /\ \/ /\ \E executed \in SUBSET Lines :
               gcdaFile' = gcdaFile \cup {<<MainTest, l>> : l \in executed}
          /\ mainPc' = "collect_gcov"
       \/ /\ mainPc' = "raised"
          /\ UNCHANGED gcdaFile
    /\ UNCHANGED <<rvars, vvars, gvars, dvars, svars, mainTests, mainIdx,
                   baseline, lastAdd, gcovFile, repair>>

\* lines 197-201: gcov writes the report of the counters it finds, or fails
\* and writes nothing (its return code is not looked at), or subprocess.run
\* raises TimeoutExpired
GenerateGcov ==
    /\ mainPc = "collect_gcov"
    /\ \/ gcovFile' = [counters |-> gcdaFile] /\ mainPc' = "collect_record"
       \/ UNCHANGED gcovFile /\ mainPc' = "collect_record"
       \/ UNCHANGED gcovFile /\ mainPc' = "raised"
    /\ UNCHANGED <<rvars, vvars, gvars, dvars, svars, mainTests, mainIdx,
                   baseline, lastAdd, gcdaFile, repair>>

\* lines 203-209: the executed lines of the report file if there is one, the
\* empty set otherwise
ReportedLines ==
    IF gcovFile # NoResult THEN {c[2] : c \in gcovFile.counters} ELSE {}

\* collect_coverage, line 212: the lines of the report are recorded with the
\* verdict of the naming convention
RecordCoverage ==
    /\ mainPc = "collect_record"
    /\ matrix' = add_test_case(matrix, MainTest, ReportedLines,
                               expected_pass(MainTest))
    /\ MainLoopNext("collect")
    /\ UNCHANGED <<rvars, vvars, gvars, dvars, localizer, changed, ranked,
                   mainTests, baseline, lastAdd, gcdaFile, gcovFile, repair>>

\* run_all_tests, one test case: results[tc.name] = runner.run_test_case(tc),
\* or run_test_case raises and main ends
RunBaseline ==
    /\ mainPc = "baseline"
    /\ \/ /\ \E passed \in BOOLEAN :
               baseline' = DictSet(baseline, MainTest, passed)
          /\ MainLoopNext("baseline")
       \/ /\ mainPc' = "raised"
          /\ UNCHANGED <<baseline, mainIdx>>
    /\ UNCHANGED <<rvars, vvars, gvars, dvars, svars, mainTests, lastAdd,
                   gcdaFile, gcovFile, repair>>

\* coverage_matrix.results[tc_name] = result.passed, one entry of
\* baseline_results
OverwriteBaseline ==
    /\ mainPc = "overwrite"
    /\ matrix' = [matrix EXCEPT
                    !.results = DictSet(@, MainTest, baseline[MainTest])]
    /\ MainLoopNext("overwrite")
    /\ changed' = (localizer # NoResult)
    /\ UNCHANGED <<rvars, vvars, gvars, dvars, localizer, ranked, mainTests,
                   baseline,
                   lastAdd, gcdaFile, gcovFile, repair>>

\* `if coverage_matrix.num_failing == 0: sys.exit(0)`
CheckFailing ==
    /\ mainPc = "check"
    /\ mainPc' = IF num_failing(matrix) = 0 THEN "exit"
                 ELSE StepAfter(MainSteps, "check")
    /\ UNCHANGED <<rvars, vvars, gvars, dvars, svars, mainTests, mainIdx,
                   baseline,
                   lastAdd, gcdaFile, gcovFile, repair>>

\* localizer = SBFLLocalizer(coverage_matrix, source_lines)
MainLocalize ==
    /\ mainPc = "localize"
    /\ localizer' = [metric |-> "ochiai",
                     total_failed |-> num_failing(matrix),
                     total_passed |-> num_passing(matrix)]
    /\ mainPc' = StepAfter(MainSteps, "localize")
    /\ UNCHANGED <<rvars, vvars, gvars, dvars, matrix, changed, ranked,
                   mainTests,
                   mainIdx,
                   baseline, lastAdd, gcdaFile, gcovFile, repair>>

\* ranked = localizer.rank_lines(top_n=args.top_lines)
MainRank ==
    /\ mainPc = "rank"
    /\ \E top_n \in TopNs, order \in Orders(all_lines(matrix)) :
         ranked' = RankOutcome(localizer, matrix, top_n, order)
    /\ mainPc' = StepAfter(MainSteps, "rank")
    /\ UNCHANGED <<rvars, vvars, gvars, dvars, matrix, localizer, changed,
                   mainTests,
                   mainIdx, baseline, lastAdd, gcdaFile, gcovFile, repair>>

NextMain ==
    \/ CleanGcda
    \/ RunCoverage
    \/ GenerateGcov
    \/ RecordCoverage
    \/ RunBaseline
    \/ OverwriteBaseline
    \/ CheckFailing
    \/ MainLocalize
    \/ MainRank

SpecMain == InitMain /\ [][NextMain]_vars

(***************************************************************************)
(* Properties of the CoverageMatrix and of main's use of it                *)
(***************************************************************************)
MainNames == {mainTests[k] : k \in DOMAIN mainTests}

\* C15: at every point of collect_coverage's add_test_case calls and of
\* main's overwrite of the verdicts, the names of CoverageMatrix.coverage
\* are the names of CoverageMatrix.results.
C15_SameNames == DOMAIN matrix.coverage = DOMAIN matrix.results

\* The overwrite is over for three test cases and changed a verdict
C15_Witness ==
    /\ mainPc = "check"
    /\ DOMAIN matrix.coverage = TestNames
    /\ \E n \in DOMAIN matrix.results : matrix.results[n] # expected_pass(n)

\* C16: after any sequence of add_test_case calls the matrix holds, for each
\* name, the covered set and the verdict of the last call with that name;
\* num_failing + num_passing is the number of distinct names; repeating a
\* call with the same arguments leaves the matrix unchanged.
C16_LastWriteWins ==
    /\ DOMAIN matrix.coverage = DOMAIN lastAdd
    /\ DOMAIN matrix.results = DOMAIN lastAdd
    /\ \A n \in DOMAIN lastAdd :
         /\ matrix.coverage[n] = lastAdd[n].covered_lines
         /\ matrix.results[n] = lastAdd[n].passed
         /\ add_test_case(matrix, n, lastAdd[n].covered_lines,
                          lastAdd[n].passed) = matrix
    /\ num_failing(matrix) + num_passing(matrix)
         = Cardinality(DOMAIN lastAdd)

\* One name was added more than once, another once
C16_Witness ==
    \E n, o \in DOMAIN lastAdd :
        /\ lastAdd[n].again
        /\ ~lastAdd[o].again
        /\ matrix.coverage[n] # {}

\* C17: when main constructs the localizer and when rank_lines has
\* returned, the verdict the matrix holds for every test case is the passed
\* of its baseline run, whatever the naming convention said.
C17_BaselineVerdicts ==
    (Built \/ Ranked) =>
        /\ DOMAIN baseline = MainNames
        /\ DOMAIN matrix.results = MainNames
        /\ \A n \in MainNames : matrix.results[n] = baseline[n]

\* rank_lines has returned in main, and the baseline run of a test case
\* contradicted its name
C17_Witness ==
    /\ Ranked
    /\ mainPc = "end"
    /\ \E n \in MainNames :
         /\ baseline[n] # expected_pass(n)
         /\ matrix.results[n] = baseline[n]

(***************************************************************************)
(* Properties of run_iteration's decoding                                  *)
(***************************************************************************)
\* The reads of _data logged in this test case
Reads == {k \in DOMAIN log : log[k][2] = "read"}

\* C18: when decoding the oracle file (or the bytes read from _data) fails
\* in run_iteration, the iteration's result is a failure whose reason is
\* "Parse error: ..."; it is no pass, no index mismatch and no distance
\* failure, and a decoding that succeeds is never reported as a parse error.
C18_ParseError ==
    \A k \in Reads :
        LET i == log[k][1]
        IN  /\ i \in DOMAIN iterResults
            /\ log[k][3] <=> iterResults[i].validation.detail # "Parse error"
            /\ ~log[k][3] =>
                 /\ ~iterResults[i].passed
                 /\ ~iterResults[i].validation.passed
                 /\ ret # NoResult
                 /\ ~ret.passed
                 /\ ret.failed_at_iteration = i
                 /\ ret.failure_reason = "Parse error"

\* The oracle file of a second iteration did not decode, after a first
\* iteration that passed
C18_Witness ==
    /\ Len(iterResults) = 2
    /\ iterResults[1].passed
    /\ iterResults[2].validation.detail = "Parse error"
    /\ \E k \in Reads : log[k][1] = 2 /\ ~log[k][3]
    /\ pc = "all_loop"

(***************************************************************************)
(* The TestCaseResult of run_test_case                                     *)
(***************************************************************************)
\* C25: the TestCaseResult of run_test_case is one terminal outcome: a pass
\* with iterations_run = iterations_total and neither failed_at_iteration
\* nor failure_reason, or a failure with a non-empty failure_reason and
\* failed_at_iteration = iterations_run, which is 0 for a startup failure and
\* otherwise the failing iteration, counted from 1 and at most
\* iterations_total.
C25_TerminalOutcome ==
    ret # NoResult =>
      /\ ret.test_name = TestCase.name
      /\ ret.iterations_total = TestCase.num_iterations
      /\ IF ret.passed
         THEN /\ ret.iterations_run = ret.iterations_total
              /\ ret.failed_at_iteration = None
              /\ ret.failure_reason = "None"
              /\ \A k \in DOMAIN iterResults : iterResults[k].passed
         ELSE /\ ret.failure_reason \notin {"", "None"}
              /\ ret.failed_at_iteration = ret.iterations_run
              /\ ret.failed_at_iteration \in 0..ret.iterations_total
              /\ IF iterResults = <<>>
                 THEN /\ ret.failed_at_iteration = 0
                      /\ ret.failure_reason = "Controller failed to start"
                 ELSE /\ ret.failed_at_iteration = Len(iterResults)
                      /\ ~iterResults[Len(iterResults)].passed
                      /\ iterResults[Len(iterResults)].iteration
                           = ret.failed_at_iteration
                      /\ \A k \in 1..(Len(iterResults) - 1) :
                           iterResults[k].passed

\* A second test case returned failed at its second iteration, by its
\* validation, after a first one that failed to start
C25_Witness ==
    /\ pc = "all_loop"
    /\ tcIdx = 2
    /\ ret # NoResult
    /\ ~ret.passed
    /\ ret.failed_at_iteration = 2
    /\ ret.failure_reason = "FAIL: cosine_distance"
    /\ testCases[1].name \in DOMAIN results
    /\ ~results[testCases[1].name]

(***************************************************************************)
(* One Controller at a time                                                *)
(***************************************************************************)
\* C19: at most one Controller process is live: run_all_test_cases goes to
\* the next test case only when the Controller of the last one is not
\* running, a Controller is launched only when this test case has launched
\* none and holds no process, and iteration i + 1 starts only after
\* iteration i has returned its result.
C19_OneController ==
    /\ [][tcIdx' # tcIdx => (ctrl # "running" /\ process = "None")]_vars
    /\ [][(ctrl' = "running" /\ ctrl # "running")
            => (ctrl = "none" /\ process = "None")]_vars
    /\ [][(iteration >= 1 /\ iteration' = iteration + 1 /\ tcIdx' = tcIdx)
            => (Len(iterResults') = iteration
                  /\ iterResults'[iteration].iteration = iteration)]_vars
    /\ [](\A k \in DOMAIN log : log[k][1] <= Len(iterResults) + 1)

\* The Controller of a second test case is running in its second iteration,
\* after a first test case that passed
C19_Witness ==
    /\ tcIdx = 2
    /\ ctrl = "running"
    /\ iteration = 2
    /\ Len(iterResults) = 1
    /\ 1 \in DOMAIN results
    /\ results[1]

(***************************************************************************)
(* coverage/gcov_parser.py: GcovParser                                     *)
(*                                                                         *)
(* A report line is count:line_number:source_text.  The two fields the     *)
(* parser decides on are kept as strings, written as sequences of          *)
(* characters; source_text is any text and no getter reads it.             *)
(***************************************************************************)
MaxDigits == 2      \* longest decimal string of a report line
MaxStars == 2       \* longest run of '*'
MaxReport == 2      \* lines of a report

\* The characters of [0-9] and \d, in the order of their values
DigitSeq == <<"0", "1", "2", "3", "4", "5", "6", "7", "8", "9">>
DigitValue(c) == (CHOOSE i \in DOMAIN DigitSeq : DigitSeq[i] = c) - 1

Run(c, n) == [i \in 1..n |-> c]
Dash == <<"-">>
Hashes == Run("#", 5)
Equals == Run("=", 5)

\* [0-9]+ and \d+ : one digit or more
IsDigits(str) ==
    /\ Len(str) >= 1
    /\ \A i \in DOMAIN str : \E k \in DOMAIN DigitSeq : DigitSeq[k] = str[i]

\* \*+ : one '*' or more
IsStars(str) == Len(str) >= 1 /\ \A i \in DOMAIN str : str[i] = "*"

\* int(str) of a string of digits
RECURSIVE int(_)
int(str) ==
    IF str = <<>>
    THEN 0
    ELSE 10 * int(SubSeq(str, 1, Len(str) - 1)) + DigitValue(str[Len(str)])

\* LINE_PATTERN.match: the first group is one of the five alternatives and
\* the second is a string of digits
LINE_PATTERN(raw_line) ==
    /\ \/ IsDigits(raw_line.count_str)
       \/ raw_line.count_str = Dash
       \/ raw_line.count_str = Hashes
       \/ raw_line.count_str = Equals
       \/ IsStars(raw_line.count_str)
    /\ IsDigits(raw_line.line_num_str)

GcovLine(line_number, execution_count, is_executable) ==
    [line_number |-> line_number, execution_count |-> execution_count,
     is_executable |-> is_executable]

\* was_executed taking a count of zero for an execution
was_executed_zero(line) == line.execution_count # None

\* GcovLine.was_executed
was_executed(line) ==
    line.execution_count # None /\ line.execution_count > 0

\* _parse_line without lines 77-79: the header lines, numbered 0, are kept
parse_line_keeps_header(raw_line) ==
    IF ~LINE_PATTERN(raw_line)
    THEN NoResult
    ELSE LET count_str == raw_line.count_str
             line_number == int(raw_line.line_num_str)
         IN  IF count_str = Dash
             THEN GcovLine(line_number, None, FALSE)
             ELSE IF \/ count_str \in {Hashes, Equals}
                     \/ (count_str # <<>> /\ count_str[1] = "*")
             THEN GcovLine(line_number, 0, TRUE)
             ELSE IF IsDigits(count_str)
             THEN GcovLine(line_number, int(count_str), TRUE)
             ELSE GcovLine(line_number, None, FALSE)

\* _parse_line: NoResult stands for the None of a line that is skipped
parse_line(raw_line) ==
    IF ~LINE_PATTERN(raw_line)
    THEN NoResult
    ELSE LET count_str == raw_line.count_str
             line_number == int(raw_line.line_num_str)
         IN  IF line_number = 0
             THEN NoResult
             ELSE IF count_str = Dash
             THEN GcovLine(line_number, None, FALSE)
             ELSE IF \/ count_str \in {Hashes, Equals}
                     \/ (count_str # <<>> /\ count_str[1] = "*")
             THEN GcovLine(line_number, 0, TRUE)
             ELSE IF IsDigits(count_str)
             THEN GcovLine(line_number, int(count_str), TRUE)
             ELSE GcovLine(line_number, None, FALSE)

\* The three getters, on the list parse_file returns
get_executed_lines(lines) ==
    {lines[i].line_number : i \in {j \in DOMAIN lines : was_executed(lines[j])}}
get_executable_lines(lines) ==
    {lines[i].line_number : i \in {j \in DOMAIN lines : lines[j].is_executable}}
get_not_executed_lines(lines) ==
    {lines[i].line_number :
        i \in {j \in DOMAIN lines :
                 lines[j].is_executable /\ ~was_executed(lines[j])}}

\* The strings a report line is drawn from: decimal strings (with leading
\* zeros), the markers, and strings the pattern does not match
SampleDigits == {"0", "1"}
DigitStrs == UNION {[1..n -> SampleDigits] : n \in 1..MaxDigits}
StarRuns == {Run("*", n) : n \in 1..MaxStars}
Unmatched == {<<>>, <<"1", "*">>, Run("#", 4)}
CountStrs == DigitStrs \cup {Dash, Hashes, Equals} \cup StarRuns \cup Unmatched
LineNumStrs == DigitStrs \cup {<<>>}

\* The largest line number parse_file has appended
LastLineNumber ==
    IF gcovLines = <<>> THEN 0 ELSE gcovLines[Len(gcovLines)].line_number

\* gcov writes a report for one source file: header lines, numbered 0 and
\* marked '-', then every source line once, in order
GcovStyle(raw_line) ==
    LINE_PATTERN(raw_line) =>
        LET n == int(raw_line.line_num_str)
        IN  IF n = 0
            THEN raw_line.count_str = Dash /\ gcovLines = <<>>
            ELSE n > LastLineNumber

InitGcov ==
    /\ GcovIdle
    /\ DataIdle
    /\ RunnerIdle
    /\ ValidateIdle
    /\ SbflIdle
    /\ MainIdle
    /\ RepairIdle

\* parse_file, one turn of its loop: the next line of the report goes
\* through _parse_line and is appended unless it is skipped
ParseLine ==
    /\ gcovRead < MaxReport
    /\ \E count_str \in CountStrs, line_num_str \in LineNumStrs :
         LET raw_line == [count_str |-> count_str,
                          line_num_str |-> line_num_str]
             parsed == parse_line(raw_line)
         IN  /\ GcovStyle(raw_line)
             /\ gcovRead' = gcovRead + 1
             /\ gcovLines' = IF parsed = NoResult
                             THEN gcovLines
                             ELSE Append(gcovLines, parsed)
             /\ gcovMarkers' =
                  IF LINE_PATTERN(raw_line)
                  THEN gcovMarkers \cup {<<int(line_num_str), count_str>>}
                  ELSE gcovMarkers
    /\ UNCHANGED <<rvars, vvars, svars, mvars, dvars>>

NextGcov == ParseLine
SpecGcov == InitGcov /\ [][NextGcov]_vars

ParsedNumbers == {gcovLines[i].line_number : i \in DOMAIN gcovLines}

MaxPoints == 2      \* points kept of the 256 of MappedJointTrajectory

\* t[a:b] of a Python tuple, a and b counted from 0
Slice(t, a, b) == SubSeq(t, a + 1, Min2(b, Len(t)))

Arrays == <<"positions", "velocities", "accelerations", "effort">>

\* One array of a point in POINT_FORMAT, 'Q100d': its length, then its slots
ArrayFields(array, length) ==
    <<length>> \o [k \in 1..VoteLen |-> [array |-> array, slot |-> k]]

\* struct.unpack_from(POINT_FORMAT, data, offset): the four arrays, then
\* time_from_start_sec and time_from_start_nsec
UnpackPoint(lengths) ==
    ArrayFields(Arrays[1], lengths[1]) \o ArrayFields(Arrays[2], lengths[2])
        \o ArrayFields(Arrays[3], lengths[3])
        \o ArrayFields(Arrays[4], lengths[4]) \o <<0, 0>>

\* _parse_point; the indices 101, 202, 303 of the code are 1, 2, 3 times the
\* fields of one array
parse_point(pt) ==
    LET fields == VoteLen + 1
        pos_len == pt[1]
        vel_len == pt[fields + 1]
        acc_len == pt[2 * fields + 1]
        eff_len == pt[3 * fields + 1]
    IN  [positions_length |-> pos_len,
         positions |-> Slice(pt, 1, 1 + Min2(pos_len, VoteLen)),
         velocities_length |-> vel_len,
         velocities |->
             Slice(pt, fields + 1, fields + 1 + Min2(vel_len, VoteLen)),
         accelerations_length |-> acc_len,
         accelerations |->
             Slice(pt, 2 * fields + 1,
                   2 * fields + 1 + Min2(acc_len, VoteLen)),
         effort_length |-> eff_len,
         effort |->
             Slice(pt, 3 * fields + 1,
                   3 * fields + 1 + Min2(eff_len, VoteLen))]

\* num_points taken as points_length, without the minimum
num_points_unclamped(points_length) == points_length

\* num_points = min(int(points_length), 256)
num_points(points_length) == Min2(points_length, MaxPoints)

\* The lengths a buffer declares: within the capacity, at it, and above it
PointsLengths == 0..(MaxPoints + 2)
ArrayLengths == {0, 1, VoteLen, VoteLen + 1}

\* The buffer holds its header and `size` whole points; a full-size buffer
\* holds MaxPoints points and cur_time_seconds after them
FullSize == MaxPoints + 1

InitState ==
    /\ data \in [points_length : PointsLengths, size : 0..FullSize]
    /\ decoded = [pc |-> "header", num_points |-> 0, points |-> 0,
                  last |-> NoResult]
    /\ RunnerIdle
    /\ ValidateIdle
    /\ SbflIdle
    /\ MainIdle
    /\ RepairIdle
    /\ GcovIdle

\* parse_state up to its loop: idx, joint_names, points_length
ParseStateHeader ==
    /\ decoded # NoResult
    /\ decoded.pc = "header"
    /\ decoded' = [decoded EXCEPT !.pc = "points",
                     !.num_points = num_points(data.points_length)]
    /\ UNCHANGED <<data, rvars, vvars, svars, mvars, gvars>>

\* One turn of the loop: _parse_point at the next offset, which raises
\* struct.error when the buffer ends before the point does
ParsePoint ==
    /\ decoded # NoResult
    /\ decoded.pc = "points"
    /\ decoded.points < decoded.num_points
    /\ IF decoded.points < Min2(data.size, MaxPoints)
       THEN \E lengths \in [1..4 -> ArrayLengths] :
              decoded' = [decoded EXCEPT !.points = @ + 1,
                            !.last = parse_point(UnpackPoint(lengths))]
       ELSE decoded' = [decoded EXCEPT !.pc = "raised"]
    /\ UNCHANGED <<data, rvars, vvars, svars, mvars, gvars>>

\* After the loop: cur_time_seconds is read after the whole array of points
ParseStateReturn ==
    /\ decoded # NoResult
    /\ decoded.pc = "points"
    /\ decoded.points = decoded.num_points
    /\ decoded' = [decoded EXCEPT
                     !.pc = IF data.size = FullSize THEN "done" ELSE "raised"]
    /\ UNCHANGED <<data, rvars, vvars, svars, mvars, gvars>>

NextState == ParseStateHeader \/ ParsePoint \/ ParseStateReturn
SpecState == InitState /\ [][NextState]_vars

\* The first n slots of an array, as the buffer holds them
FirstSlots(array, n) == [k \in 1..n |-> [array |-> array, slot |-> k]]

\* C23: on a full-size buffer parse_state never raises, it decodes exactly
\* min(points_length, capacity) points, and each of the four arrays of a
\* decoded point is the first min(declared length, capacity) slots of that
\* array: no element beyond the logical length is returned.
C23_ParseStateClamps ==
    (data # NoResult /\ data.size = FullSize) =>
      /\ decoded.pc # "raised"
      /\ decoded.points <= Min2(data.points_length, MaxPoints)
      /\ decoded.pc = "done" =>
           decoded.points = Min2(data.points_length, MaxPoints)
      /\ decoded.last # NoResult =>
           LET pt == decoded.last
           IN  /\ pt.positions =
                    FirstSlots("positions",
                               Min2(pt.positions_length, VoteLen))
               /\ pt.velocities =
                    FirstSlots("velocities",
                               Min2(pt.velocities_length, VoteLen))
               /\ pt.accelerations =
                    FirstSlots("accelerations",
                               Min2(pt.accelerations_length, VoteLen))
               /\ pt.effort =
                    FirstSlots("effort", Min2(pt.effort_length, VoteLen))

\* A full-size buffer decoded to its end that declares more points than the
\* capacity, its last point declaring more positions than the capacity, as
\* many velocities and fewer accelerations
C23_Witness ==
    /\ data # NoResult
    /\ data.size = FullSize
    /\ data.points_length > MaxPoints
    /\ decoded.pc = "done"
    /\ decoded.points = MaxPoints
    /\ decoded.last.positions_length > VoteLen
    /\ Len(decoded.last.positions) = VoteLen
    /\ decoded.last.velocities_length = VoteLen
    /\ decoded.last.accelerations_length = 1
    /\ Len(decoded.last.accelerations) = 1

(***************************************************************************)
(* testing/data_format.py: the Vote layout and parse_vote                  *)
(*                                                                         *)
(* VOTE_FORMAT is 'i' and POINT_FORMAT in native alignment: idx in four    *)
(* bytes, four bytes of padding, then fields of eight bytes.  The image    *)
(* keeps the bytes of idx and the padding; a field of eight bytes is kept  *)
(* whole, a double being copied bit for bit by struct.                     *)
(***************************************************************************)
\* Byte k (0 the lowest) of the two's complement int32 i
Int32Byte(i, k) ==
    LET shift == IF k = 0 THEN 1 ELSE IF k = 1 THEN 256
                 ELSE IF k = 2 THEN 65536 ELSE 16777216
    IN  IF i >= 0 THEN (i \div shift) % 256
        ELSE 255 - ((((-i) - 1) \div shift) % 256)

\* struct 'i', packed little-endian, and unpacked
PackInt32(i) == [k \in 1..4 |-> Int32Byte(i, k - 1)]
UnpackInt32(b) ==
    b[1] + 256 * b[2] + 65536 * b[3]
        + 16777216 * (IF b[4] >= 128 THEN b[4] - 256 ELSE b[4])

\* struct.pack(VOTE_FORMAT, idx, positions_length, *positions,
\* velocities_length, *velocities, 0, ...): accelerations, effort and the
\* time are zero
PackVote(vote, positions_length, velocities_length) ==
    PackInt32(vote.idx) \o <<0, 0, 0, 0>>
        \o <<positions_length>> \o vote.positions
        \o <<velocities_length>> \o vote.velocities
        \o [k \in 1..(2 * (VoteLen + 1) + 2) |-> 0]

\* struct.unpack(VOTE_FORMAT, data): idx, then the fields of eight bytes
UnpackVote(bytes) ==
    <<UnpackInt32(SubSeq(bytes, 1, 4))>> \o SubSeq(bytes, 9, Len(bytes))

\* parse_vote slicing each array from the field of its length
parse_vote_from_length(bytes) ==
    LET unpacked == UnpackVote(bytes)
    IN  MkVote(unpacked[1], Slice(unpacked, 1, 1 + VoteLen),
               Slice(unpacked, 2 + VoteLen, 2 + 2 * VoteLen))

\* parse_vote: unpacked[2:102] and unpacked[103:203]
parse_vote(bytes) ==
    LET unpacked == UnpackVote(bytes)
    IN  MkVote(unpacked[1], Slice(unpacked, 2, 2 + VoteLen),
               Slice(unpacked, 3 + VoteLen, 3 + 2 * VoteLen))

\* idx values across the int32 range
IdxSamples == {-2147483647, -65536, -256, -1, 0, 1, 255, 256, 2147483647}

\* The Votes packed: those of ControllerVotes with each of the idx values
PackedVotes ==
    {[v EXCEPT !.idx = i] : v \in {c \in ControllerVotes : c.idx = 0},
                            i \in IdxSamples}

InitVote ==
    /\ data \in [vote : PackedVotes, positions_length : ArrayLengths,
                 velocities_length : ArrayLengths, bytes : {NoResult}]
    /\ decoded = NoResult
    /\ RunnerIdle
    /\ ValidateIdle
    /\ SbflIdle
    /\ MainIdle
    /\ RepairIdle
    /\ GcovIdle

\* The Vote is packed in the layout
Pack ==
    /\ data # NoResult
    /\ data.bytes = NoResult
    /\ data' = [data EXCEPT
                  !.bytes = PackVote(data.vote, data.positions_length,
                                     data.velocities_length)]
    /\ UNCHANGED <<decoded, rvars, vvars, svars, mvars, gvars>>

\* parse_vote(data)
ParseVote ==
    /\ data # NoResult
    /\ data.bytes # NoResult
    /\ decoded = NoResult
    /\ decoded' = parse_vote(data.bytes)
    /\ UNCHANGED <<data, rvars, vvars, svars, mvars, gvars>>

NextVote == Pack \/ ParseVote
SpecVote == InitVote /\ [][NextVote]_vars

\* C24: a Vote packed in the Vote layout and decoded by parse_vote comes
\* back with the same idx and the same position and velocity in every slot,
\* whatever positions_length and velocities_length the packed point holds.
C24_RoundTrip ==
    (data # NoResult /\ decoded # NoResult) => decoded = data.vote

\* A Vote with a negative idx decoded from an image whose length fields are
\* above the capacity and zero
C24_Witness ==
    /\ data # NoResult
    /\ decoded # NoResult
    /\ data.vote.idx = -256
    /\ data.vote.positions[1] = -1
    /\ data.vote.velocities[NUM_JOINTS + 1] = 1
    /\ data.positions_length = VoteLen + 1
    /\ data.velocities_length = 0

\* VOTE_FORMAT with the arrays of the image: VoteLen slots for the 100
ImageFormat == <<[code |-> "i", count |-> 1]>> \o PointFormat(VoteLen)

\* The field of eight bytes that starts at byte `offset` of the image: the
\* first eight bytes of the image are kept one by one, the rest by fields
FieldAt(bytes, offset) == bytes[9 + ((offset - 8) \div 8)]

\* C38: the Vote layout is 3,248 bytes and a TrajectoryPoint 3,240 bytes;
\* idx is the 4 bytes at offset 0, positions_length the 8 bytes at offset 8
\* after 4 bytes of padding, positions the 100 doubles from byte 16,
\* velocities_length the 8 bytes at byte 816 and velocities the 100 doubles
\* from byte 824; parse_vote returns idx from the first 4 bytes, and as
\* positions and velocities the doubles at the offsets of the third and
\* of the fifth field of the format, never a length field or the padding.
C38_VoteLayout ==
    /\ calcsize(VOTE_FORMAT) = 3248
    /\ calcsize(POINT_FORMAT) = 3240
    /\ OffsetOf(VOTE_FORMAT, 1) = 0
    /\ VOTE_FORMAT[1].count * SizeOf(VOTE_FORMAT[1].code) = 4
    /\ OffsetOf(VOTE_FORMAT, 2) = 8
    /\ VOTE_FORMAT[2].count * SizeOf(VOTE_FORMAT[2].code) = 8
    /\ OffsetOf(VOTE_FORMAT, 3) = 16
    /\ VOTE_FORMAT[3] = [code |-> "d", count |-> 100]
    /\ OffsetOf(VOTE_FORMAT, 4) = 816
    /\ OffsetOf(VOTE_FORMAT, 5) = 824
    /\ VOTE_FORMAT[5] = [code |-> "d", count |-> 100]
    /\ (data # NoResult /\ decoded # NoResult) =>
         /\ OffsetOf(ImageFormat, 1) = 0
         /\ decoded.idx = UnpackInt32(SubSeq(data.bytes, 1, 4))
         /\ Len(decoded.positions) = ImageFormat[3].count
         /\ Len(decoded.velocities) = ImageFormat[5].count
         /\ \A k \in 1..VoteLen :
              /\ decoded.positions[k] =
                   FieldAt(data.bytes, OffsetOf(ImageFormat, 3) + 8 * (k - 1))
              /\ decoded.velocities[k] =
                   FieldAt(data.bytes, OffsetOf(ImageFormat, 5) + 8 * (k - 1))
         /\ FieldAt(data.bytes, OffsetOf(ImageFormat, 2))
              = data.positions_length
         /\ FieldAt(data.bytes, OffsetOf(ImageFormat, 4))
              = data.velocities_length

\* A Vote decoded from an image whose two length fields differ from the
\* first slot of the array that follows them
C38_Witness ==
    /\ data # NoResult
    /\ decoded # NoResult
    /\ data.positions_length = 1
    /\ data.velocities_length = VoteLen
    /\ data.vote.idx = 255
    /\ decoded.idx = 255
    /\ decoded.positions[1] = -1
    /\ decoded.velocities[1] = 0
    /\ decoded.velocities[NUM_JOINTS + 1] = 1

(***************************************************************************)
(* testing/data_format.py: parse_vote and parse_state on a buffer of any   *)
(* length.  The buffer is kept as its length in bytes and the              *)
(* points_length it declares; each read of the code is one step, which     *)
(* raises struct.error when the buffer ends before the bytes it reads.     *)
(***************************************************************************)
POINTS_CAPACITY == 256      \* points[256] of MappedJointTrajectory
JOINT_NAMES_SIZE == 2560    \* joint_names[10][256]

IntFormat == <<[code |-> "i", count |-> 1]>>
SizeFormat == <<[code |-> "Q", count |-> 1]>>

\* struct.unpack_from(format, data, offset) finds its bytes in a buffer of
\* `len` bytes
Holds(len, offset, format) == offset + calcsize(format) <= len

\* cur_time_seconds read after the points the loop has decoded
cur_time_offset_after_points(offset, decoded_points) ==
    offset + decoded_points * POINT_SIZE

\* cur_time_offset = offset + 256 * POINT_SIZE
cur_time_offset(offset, decoded_points) ==
    offset + POINTS_CAPACITY * POINT_SIZE

\* The lengths of the buffers: around each offset the code reads at
VoteLengths == {0, 3, 4, 8, VOTE_SIZE - 1, VOTE_SIZE, VOTE_SIZE + 1, 832033}
StateLengths ==
    {0, 3, 4, 15, 16, 2583, 2584, 2584 + POINT_SIZE - 1, 2584 + POINT_SIZE,
     2588, 5828, 832023, 832024, 832027, 832028, 832029, 832033}
DeclaredPoints == {0, 1, POINTS_CAPACITY, POINTS_CAPACITY + 1}

StartOf(kind) ==
    [pc |-> IF kind = "vote" THEN "unpack" ELSE "idx", offset |-> 0,
     num_points |-> 0, points |-> 0]

InitBuffer ==
    /\ data \in [kind : {"vote"}, len : VoteLengths, points_length : {0}]
              \cup [kind : {"state"}, len : StateLengths,
                    points_length : DeclaredPoints]
    /\ decoded = StartOf(data.kind)
    /\ RunnerIdle
    /\ ValidateIdle
    /\ SbflIdle
    /\ MainIdle
    /\ RepairIdle
    /\ GcovIdle

\* parse_vote: struct.unpack(VOTE_FORMAT, data[:VOTE_SIZE]) takes a buffer
\* of exactly calcsize(VOTE_FORMAT) bytes
UnpackBuffer ==
    /\ decoded.pc = "unpack"
    /\ LET sliced == Min2(data.len, VOTE_SIZE)
       IN  decoded' = [decoded EXCEPT
                         !.pc = IF sliced = calcsize(VOTE_FORMAT)
                                THEN "done" ELSE "raised"]
    /\ UNCHANGED <<data, rvars, vvars, svars, mvars, gvars>>

\* parse_state, lines 119-120: idx at offset 0
ReadIdx ==
    /\ decoded.pc = "idx"
    /\ decoded' = IF Holds(data.len, decoded.offset, IntFormat)
                  THEN [decoded EXCEPT !.pc = "joint_names", !.offset = @ + 8]
                  ELSE [decoded EXCEPT !.pc = "raised"]
    /\ UNCHANGED <<data, rvars, vvars, svars, mvars, gvars>>

\* lines 123-133: joint_names_length, then the ten names, sliced out of
\* the buffer and decoded with errors='replace'
ReadJointNames ==
    /\ decoded.pc = "joint_names"
    /\ decoded' = IF Holds(data.len, decoded.offset, SizeFormat)
                  THEN [decoded EXCEPT !.pc = "points_length",
                          !.offset = @ + 8 + JOINT_NAMES_SIZE]
                  ELSE [decoded EXCEPT !.pc = "raised"]
    /\ UNCHANGED <<data, rvars, vvars, svars, mvars, gvars>>

\* lines 136-140: points_length and num_points
ReadPointsLength ==
    /\ decoded.pc = "points_length"
    /\ decoded' = IF Holds(data.len, decoded.offset, SizeFormat)
                  THEN [decoded EXCEPT !.pc = "points", !.offset = @ + 8,
                          !.num_points =
                              Min2(data.points_length, POINTS_CAPACITY)]
                  ELSE [decoded EXCEPT !.pc = "raised"]
    /\ UNCHANGED <<data, rvars, vvars, svars, mvars, gvars>>

\* lines 141-143, one turn: _parse_point at offset + p * POINT_SIZE
ReadPoint ==
    /\ decoded.pc = "points"
    /\ decoded.points < decoded.num_points
    /\ decoded' = IF Holds(data.len,
                           decoded.offset + decoded.points * POINT_SIZE,
                           POINT_FORMAT)
                  THEN [decoded EXCEPT !.points = @ + 1]
                  ELSE [decoded EXCEPT !.pc = "raised"]
    /\ UNCHANGED <<data, rvars, vvars, svars, mvars, gvars>>

\* lines 146-147: cur_time_seconds
ReadCurTime ==
    /\ decoded.pc = "points"
    /\ decoded.points = decoded.num_points
    /\ LET at == cur_time_offset(decoded.offset, decoded.points)
       IN  decoded' = IF Holds(data.len, at, IntFormat)
                      THEN [decoded EXCEPT !.pc = "done", !.offset = at]
                      ELSE [decoded EXCEPT !.pc = "raised", !.offset = at]
    /\ UNCHANGED <<data, rvars, vvars, svars, mvars, gvars>>

NextBuffer ==
    \/ UnpackBuffer
    \/ ReadIdx
    \/ ReadJointNames
    \/ ReadPointsLength
    \/ ReadPoint
    \/ ReadCurTime
SpecBuffer == InitBuffer /\ [][NextBuffer]_vars

\* C39: parse_vote returns no value for a buffer of fewer than 3,248 bytes
\* and parse_state none for a buffer of fewer than 832,028 bytes; a buffer
\* of at least that size never raises; parse_state reads cur_time_seconds
\* at byte 8 + 8 + 2,560 + 8 + 256 x 3,240 = 832,024, whatever
\* points_length declares.
C39_ShortBuffers ==
    /\ data.kind = "vote" =>
         /\ data.len < 3248 => decoded.pc # "done"
         /\ data.len >= 3248 => decoded.pc # "raised"
    /\ data.kind = "state" =>
         /\ data.len < 832028 => decoded.pc # "done"
         /\ data.len >= 832028 => decoded.pc # "raised"
         /\ decoded.pc = "done" =>
              /\ decoded.offset = 832024
              /\ decoded.offset = 8 + 8 + 2560 + 8 + 256 * 3240
              /\ decoded.points = Min2(data.points_length, 256)
         /\ (decoded.pc = "raised" /\ data.len >= 2584 + 256 * 3240) =>
              decoded.offset = 832024

\* parse_state raised on its last read: the buffer holds the 256 points
\* and declares none, and is one byte short of cur_time_seconds
C39_Witness ==
    /\ data.kind = "state"
    /\ data.len = 832027
    /\ data.points_length = 0
    /\ decoded.pc = "raised"
    /\ decoded.offset = 832024

(***************************************************************************)
(* The exchange with a Controller that follows the handshake               *)
(***************************************************************************)
\* C27: with a Controller that follows the handshake, whenever the runner is
\* about to read _data in iteration i the sentinel is present, the
\* Controller is not between writing its output and recreating the
\* sentinel, and _data holds the output the Controller wrote after reading
\* the input of iteration i: not the zero fill, not the output of i-1.
C27_ReadsOwnOutput ==
    pc = "read" =>
      /\ flagFile
      /\ ctrl # "answered"
      /\ dataFile.exists
      /\ iteration >= 1
      /\ dataFile.from = iteration

\* The runner about to read the Controller's answer to the second input of
\* the second test case
C27_Witness ==
    /\ pc = "read"
    /\ tcIdx = 2
    /\ iteration = 2
    /\ dataFile.from = 2
    /\ ctrl = "running"
    /\ <<1, "read", TRUE>> \in {log[k] : k \in DOMAIN log}

(***************************************************************************)
(* The input buffer at the moment the Controller is told to consume it     *)
(***************************************************************************)
\* C28: when the runner is about to delete the sentinel in iteration i,
\* every byte of _state is a byte of the input file t{i}: none is left from
\* an earlier iteration or from the zero fill.
C28_WholeBufferIsInput ==
    pc = "signal" =>
      \A k \in DOMAIN stateFile.content :
         stateFile.content[k].tag = iteration

(***************************************************************************)
(* The readiness signal at startup                                         *)
(***************************************************************************)
\* C29: a sentinel the runner finds while it waits in _start_controller was
\* created by the Controller launched for this test case: one left by an
\* earlier run or test case was unlinked before the launch, so the
\* readiness the runner accepts is never a stale sentinel.
C29_FreshSentinel ==
    (InStartup /\ flagFile) => (created /\ ctrl # "none")

\* The second test case's Controller has signalled that it is ready and the
\* runner is about to see it
C29_Witness ==
    /\ pc = "startup"
    /\ tcIdx = 2
    /\ flagFile
    /\ created
    /\ ctrl = "running"

(***************************************************************************)
(* No iteration is run twice                                               *)
(***************************************************************************)
\* C30: within one run_test_case the iterations attempted are 1, 2, ... in
\* this order, each once and none beyond N; an iteration that did not pass
\* (timeout, crash, failed validation, missing file) is the last one
\* attempted; the runner's events never go back to an earlier iteration;
\* and the sentinel is deleted at most once in each iteration.
C30_NoRetry ==
    /\ \A k \in DOMAIN iterResults : iterResults[k].iteration = k
    /\ \A k \in 1..Len(iterResults) - 1 : iterResults[k].passed
    /\ tcIdx > 0 => Len(iterResults) <= TestCase.num_iterations
    /\ pc \in {IterationSteps[k] : k \in DOMAIN IterationSteps}
         => iteration = Len(iterResults) + 1
    /\ \A k \in 1..Len(log) - 1 : log[k][1] <= log[k + 1][1]
    /\ \A i \in 1..MaxIterations :
         Cardinality({k \in DOMAIN log :
                        log[k][1] = i /\ log[k][2] = "delete"}) <= 1

\* The second iteration timed out after the first passed: both were
\* attempted once and the sentinel was deleted once in each
C30_Witness ==
    /\ Len(iterResults) = 2
    /\ iterResults[1].passed
    /\ ~iterResults[2].passed
    /\ EventsOf(1) = Handshake
    /\ EventsOf(2) = <<"seen", "write", "delete">>
    /\ ret # NoResult
    /\ ret.failed_at_iteration = 2

(***************************************************************************)
(* A missing input or oracle file                                          *)
(***************************************************************************)
FileNotFound == {"Input file not found", "Oracle file not found"}

\* C31: an iteration whose input or oracle file does not exist fails with
\* the 'file not found' reason before the runner waited for the sentinel,
\* wrote _state or deleted the sentinel in it, it is the last iteration
\* attempted, and run_test_case returns the failure at that iteration.
C31_MissingFile ==
    ret # NoResult =>
      \A i \in DOMAIN iterResults :
         iterResults[i].validation.detail \in FileNotFound =>
           /\ ~iterResults[i].passed
           /\ EventsOf(i) = <<>>
           /\ i = Len(iterResults)
           /\ ret = TestCaseResult(TestCase.name, FALSE, i,
                                   TestCase.num_iterations, i,
                                   iterResults[i].validation.detail)

\* The oracle file of the second iteration is missing after the first
\* iteration passed
C31_Witness ==
    /\ ret # NoResult
    /\ Len(iterResults) = 2
    /\ iterResults[2].validation.detail = "Oracle file not found"
    /\ EventsOf(1) = Handshake
    /\ EventsOf(2) = <<>>
    /\ ret.failed_at_iteration = 2

(***************************************************************************)
(* The counters at a ranking request                                       *)
(***************************************************************************)
\* C32: the counters a rank_lines call computes with are those of the
\* matrix as it is at the call, whatever was added or overwritten since the
\* localizer was constructed: for every line ef + nf is the number of
\* failing test cases of the matrix, ep + np the number of passing ones,
\* and nf and np are not negative.
C32_FreshCounts ==
    Ranked =>
      \A line \in all_lines(matrix) :
         LET c == compute_counts(localizer, matrix, line)
         IN  /\ c.ef + c.nf = num_failing(matrix)
             /\ c.ep + c.np = num_passing(matrix)
             /\ c.nf >= 0
             /\ c.np >= 0

(***************************************************************************)
(* The ranking as a function of the matrix                                 *)
(***************************************************************************)
\* C33: the list rank_lines returns is determined by the entries of the
\* matrix, the metric and top_n: it is the ranking a localizer constructed
\* on the matrix as it is now computes, in whatever order the entries were
\* inserted and in whatever order the set of lines is iterated.
C33_RankIsFunction ==
    Ranked =>
      \A order \in Orders(all_lines(matrix)) :
         ranked.list =
           rank_lines([metric |-> localizer.metric,
                       total_failed |-> num_failing(matrix),
                       total_passed |-> num_passing(matrix)],
                      matrix, ranked.top_n, order)

(***************************************************************************)
(* The coverage recorded for a test case                                   *)
(***************************************************************************)
\* C34: the covered lines collect_coverage records for a test case are
\* lines executed in that test case's own coverage run (those the run added
\* to the counters cleared before it): a report made for an earlier test
\* case or an earlier run is never recorded, and without a report the empty
\* set is.
C34_OwnCoverage ==
    [][mainPc = "collect_record" =>
         matrix'.coverage[MainTest] \subseteq
           {c[2] : c \in {d \in gcdaFile : d[1] = MainTest}}]_vars

(***************************************************************************)
(* main.py, phase 3: the repair loop.  The working copy of the source in   *)
(* the temporary directory holds "original" (original_source) or           *)
(* "candidate" (the repaired_code of the attempt).                         *)
(***************************************************************************)
MaxAttempts == 2    \* largest --max-attempts tried

\* PreviousAttempt(attempt_number, code, test_results, compile_error);
\* test_results: name -> passed, empty after a compile error
PreviousAttempt(attempt_number, test_results, compile_error) ==
    [attempt_number |-> attempt_number, test_results |-> test_results,
     compile_error |-> compile_error]

\* a failed attempt that leaves the candidate in the working copy
RecordFailureNoRestore(entry) ==
    repair' = [repair EXCEPT !.previous_attempts = Append(@, entry),
                             !.attempt = @ + 1,
                             !.pc = "loop"]

\* previous_attempts.append(...); write_text(original_source); and the next
\* turn of the for loop (lines 419-426 and 483-489)
RecordFailure(entry) ==
    repair' = [repair EXCEPT !.previous_attempts = Append(@, entry),
                             !.working = "original",
                             !.attempt = @ + 1,
                             !.pc = "loop"]

\* What run_all_tests may return for the test cases main found
TestResults == [TestNames -> BOOLEAN]

InitRepair ==
    /\ \E max_attempts \in 0..MaxAttempts :
         repair = [pc |-> "loop", attempt |-> 1,
                   max_attempts |-> max_attempts, working |-> "original",
                   previous_attempts |-> <<>>]
    /\ mainPc = "idle" /\ mainTests = <<>> /\ mainIdx = 0
    /\ baseline = <<>> /\ lastAdd = <<>>
    /\ gcdaFile = {} /\ gcovFile = NoResult
    /\ SbflIdle
    /\ RunnerIdle
    /\ ValidateIdle
    /\ GcovIdle
    /\ DataIdle

\* `for attempt in range(1, args.max_attempts + 1)` and lines 389-421: the
\* loop is over (sys.exit(1), line 496), or the API call raises and the
\* loop continues, or the candidate is written to the working copy
RepairAttempt ==
    /\ repair # NoResult
    /\ repair.pc = "loop"
    /\ IF repair.attempt > repair.max_attempts
       THEN repair' = [repair EXCEPT !.pc = "exit_failure"]
       ELSE \/ repair' = [repair EXCEPT !.attempt = @ + 1]
            \/ repair' = [repair EXCEPT !.working = "candidate",
                                        !.pc = "compile"]
    /\ UNCHANGED <<rvars, vvars, gvars, dvars, svars, mainPc, mainTests,
                   mainIdx, baseline, lastAdd, gcdaFile, gcovFile>>

\* lines 424-437: compile_controller returns no executable, or one, or its
\* subprocess.run raises TimeoutExpired
RepairCompile ==
    /\ repair # NoResult
    /\ repair.pc = "compile"
    /\ \/ RecordFailure(PreviousAttempt(repair.attempt, <<>>, TRUE))
       \/ repair' = [repair EXCEPT !.pc = "test"]
       \/ repair' = [repair EXCEPT !.pc = "raised"]
    /\ UNCHANGED <<rvars, vvars, gvars, dvars, svars, mainPc, mainTests,
                   mainIdx, baseline, lastAdd, gcdaFile, gcovFile>>

\* lines 440-489: run_all_tests returns the results (sys.exit(0) when all
\* passed, a failed attempt otherwise) or run_test_case raises
RepairTest ==
    /\ repair # NoResult
    /\ repair.pc = "test"
    /\ \/ \E results_ \in TestResults :
            IF \A n \in TestNames : results_[n]
            THEN repair' = [repair EXCEPT !.pc = "exit_success"]
            ELSE RecordFailure(PreviousAttempt(repair.attempt, results_,
                                               FALSE))
       \/ repair' = [repair EXCEPT !.pc = "raised"]
    /\ UNCHANGED <<rvars, vvars, gvars, dvars, svars, mainPc, mainTests,
                   mainIdx, baseline, lastAdd, gcdaFile, gcovFile>>

NextRepair == RepairAttempt \/ RepairCompile \/ RepairTest

\* main is a sequential program: it keeps executing
SpecRepair == InitRepair /\ [][NextRepair]_vars /\ WF_vars(NextRepair)

\* main has left the repair loop
RepairEnded == repair.pc \in {"exit_success", "exit_failure", "raised"}

\* C35: the repair loop makes at most max_attempts attempts, numbered 1, 2,
\* ... without repetition, and ends; it exits with success only from an
\* attempt whose candidate compiled and passed every test case, all recorded
\* attempts before it having failed; after every unsuccessful attempt (API
\* error, compile error, failing test case) the working copy holds the
\* original source; and it exits with failure exactly when all max_attempts
\* attempts are used.
C35_RepairLoop ==
    /\ [](/\ repair.attempt \in 1..(repair.max_attempts + 1)
          /\ repair.pc \in {"compile", "test", "exit_success"}
               => /\ repair.attempt <= repair.max_attempts
                  /\ repair.working = "candidate"
          /\ repair.pc \in {"loop", "exit_failure"}
               => repair.working = "original"
          /\ repair.pc = "exit_failure"
               => repair.attempt = repair.max_attempts + 1
          /\ \A k \in DOMAIN repair.previous_attempts :
               LET a == repair.previous_attempts[k]
               IN  /\ a.attempt_number < repair.attempt
                   /\ \A j \in 1..(k - 1) :
                        repair.previous_attempts[j].attempt_number
                          < a.attempt_number
                   /\ \/ a.compile_error
                      \/ \E n \in TestNames : ~a.test_results[n])
    /\ <>RepairEnded

\* Both attempts are used, the first on a compile error and the second on a
\* failing test case, and main exits with failure
C35_Witness ==
    /\ repair.pc = "exit_failure"
    /\ repair.max_attempts = 2
    /\ Len(repair.previous_attempts) = 2
    /\ repair.previous_attempts[1].compile_error
    /\ ~repair.previous_attempts[2].compile_error
    /\ repair.working = "original"

(***************************************************************************)
(* The sizes of the IPC files                                              *)
(***************************************************************************)
\* C36: while the IPC files of a test case exist, _state has the size in
\* bytes of the test case's first input file t1, or 832033 bytes when t1
\* does not exist, and _data has VOTE_SIZE bytes.
C36_BufferSizes ==
    stateFile.exists =>
      /\ t1.exists => Size(stateFile.content) = t1.size
      /\ ~t1.exists => Size(stateFile.content) = 832033
      /\ dataFile.exists
      /\ dataFile.size = VOTE_SIZE
      /\ dataFile.size = 3248

\* The second iteration has written a shorter input to a _state of the size
\* of t1
C36_Witness ==
    /\ stateFile.exists
    /\ t1.exists
    /\ t1.size = 2
    /\ Len(stateFile.content) = 2
    /\ Size(stateFile.content) = 2
    /\ iteration = 2

====
